---------------------------- MODULE Spec2Model ----------------------------
(***************************************************************************)
(* A model of the tag output subsystem of ctags: the tag-entry writer and  *)
(* the cork queue of main/entry.c, and the field registry of main/field.c. *)
(*                                                                         *)
(* Characters are their byte values (9 is TAB, 10 is LF, 92 is the         *)
(* backslash), C strings are sequences of characters, and a NULL string    *)
(* pointer is the value NULL.  A FILE is the sequence of the records       *)
(* written to it, each record the sequence of its characters.              *)
(***************************************************************************)
EXTENDS Integers, Sequences, FiniteSets, TLC

(***************************************************************************)
(* Bounds of the model.                                                    *)
(***************************************************************************)
\* tags one run submits that are counted or queued
MaxTags == 3
\* nesting depth of corkTagFile calls
MaxCork == 2
\* the calls of enableField that are remembered, the latest last
MaxLog == 3
\* the fields that defineField is called for besides the parsers' tables
MaxDefined == 1
\* the characters of an input line before its newline
MaxLineLen == 3
\* the values 1..MaxLimit of Option.patternLengthLimit, besides its default
MaxLimit == 4

(***************************************************************************)
(* C strings.                                                              *)
(***************************************************************************)
NULL == <<-1>>

SCOPE_NIL == 0

\* the role index of a definition tag: below every index into kind->roles,
\* which start at 0
ROLE_INDEX_DEFINITION == -1

\* "kind"
S_kind == <<107,105,110,100>>
\* "scope"
S_scope == <<115,99,111,112,101>>
\* "line"
S_line == <<108,105,110,101>>
\* "language"
S_language == <<108,97,110,103,117,97,103,101>>
\* "typeref"
S_typeref == <<116,121,112,101,114,101,102>>
\* "file"
S_file == <<102,105,108,101>>
\* "inherits"
S_inherits == <<105,110,104,101,114,105,116,115>>
\* "access"
S_access == <<97,99,99,101,115,115>>
\* "implementation"
S_implementation == <<105,109,112,108,101,109,101,110,116,97,116,105,111,110>>
\* "signature"
S_signature == <<115,105,103,110,97,116,117,114,101>>
\* "role"
S_role == <<114,111,108,101>>
\* "name"
S_name == <<110,97,109,101>>
\* "input"
S_input == <<105,110,112,117,116>>
\* "pattern"
S_pattern == <<112,97,116,116,101,114,110>>
\* "compact"
S_compact == <<99,111,109,112,97,99,116>>
\* "extras"
S_extras == <<101,120,116,114,97,115>>
\* "xpath"
S_xpath == <<120,112,97,116,104>>
\* "scopeKind"
S_scopeKind == <<115,99,111,112,101,75,105,110,100>>
\* "end"
S_end == <<101,110,100>>
\* the prefix of the names of the universal fields, "UCTAGS"
CTAGS_FIELD_PREFIX == <<85,67,84,65,71,83>>

\* WITH_DEFUALT_VALUE(str): "-" for a NULL string
WITH_DEFUALT_VALUE(str) == IF str = NULL THEN <<45>> ELSE str

RECURSIVE Concat(_)
\* the concatenation of a sequence of strings
Concat(ss) == IF ss = <<>> THEN <<>> ELSE Head(ss) \o Concat(Tail(ss))

RECURSIVE Digits(_)
\* printf's %lu / %ld of a natural number
Digits(n) == IF n < 10 THEN <<48 + n>> ELSE Digits(n \div 10) \o <<48 + (n % 10)>>

\* printf's %ld
Decimal(n) == IF n < 0 THEN <<45>> \o Digits(-n) ELSE Digits(n)

(***************************************************************************)
(* The field renderers that the writer of entry.c calls (escapeName).      *)
(***************************************************************************)
valueToXDigit(v) == IF v >= 10 THEN 65 + (v - 10) ELSE 48 + v

\* the characters renderEscapedString writes for one character c
EscapedChar(c) ==
    IF (c > 0 /\ c <= 31) \/ c = 127 \/ c = 92
    THEN <<92>> \o
         (CASE c = 7  -> <<97>>
            [] c = 8  -> <<98>>
            [] c = 9  -> <<116>>
            [] c = 10 -> <<110>>
            [] c = 11 -> <<118>>
            [] c = 12 -> <<102>>
            [] c = 13 -> <<114>>
            [] c = 92 -> <<92>>
            [] OTHER  -> <<120, valueToXDigit((c \div 16) % 16), valueToXDigit(c % 16)>>)
    ELSE <<c>>

RECURSIVE renderEscapedString(_)
renderEscapedString(s) ==
    IF s = <<>> THEN <<>>
    ELSE EscapedChar(Head(s)) \o renderEscapedString(Tail(s))

\* the index of the first character of s at which renderEscapedName stops
\* scanning (a control character or a backslash), or Len(s) + 1
FirstToEscape(s) ==
    LET stops == {i \in 1..Len(s) :
                    (s[i] > 0 /\ s[i] <= 31) \/ s[i] = 127 \/ s[i] = 92}
    IN  IF stops = {} THEN Len(s) + 1
        ELSE CHOOSE i \in stops : \A j \in stops : i <= j

\* renderEscapedName without the characters before the first one to escape
renderEscapedNameFromStop(s) ==
    renderEscapedString(SubSeq(s, FirstToEscape(s), Len(s)))

renderEscapedName(s) ==
    LET k == FirstToEscape(s)
    IN  IF k = Len(s) + 1 THEN s
        ELSE SubSeq(s, 1, k - 1) \o renderEscapedString(SubSeq(s, k, Len(s)))

(***************************************************************************)
(* The field registry (field.c): the three tables of built-in fields.      *)
(***************************************************************************)
FIELD_UNKNOWN == -1

NUL_FIELD_LETTER == 0

LANG_AUTO == -1

LANG_IGNORE == -2

FieldDef(letter, name, enabled) ==
    [letter |-> letter, name |-> name, enabled |-> enabled]

fieldDefinitionsFixed ==
    << FieldDef(78, S_name, TRUE),
       FieldDef(70, S_input, TRUE),
       FieldDef(80, S_pattern, TRUE) >>

fieldDefinitionsExuberant ==
    << FieldDef(67, S_compact, FALSE),
       FieldDef(97, S_access, FALSE),
       FieldDef(102, S_file, TRUE),
       FieldDef(105, S_inherits, FALSE),
       FieldDef(75, NULL, FALSE),
       FieldDef(107, NULL, TRUE),
       FieldDef(108, S_language, FALSE),
       FieldDef(109, S_implementation, FALSE),
       FieldDef(110, S_line, FALSE),
       FieldDef(83, S_signature, FALSE),
       FieldDef(115, NULL, TRUE),
       FieldDef(116, S_typeref, TRUE),
       FieldDef(122, S_kind, FALSE) >>

fieldDefinitionsUniversal ==
    << FieldDef(114, S_role, FALSE),
       FieldDef(82, NULL, FALSE),
       FieldDef(90, S_scope, FALSE),
       FieldDef(69, S_extras, FALSE),
       FieldDef(120, S_xpath, FALSE),
       FieldDef(112, S_scopeKind, FALSE),
       FieldDef(101, S_end, FALSE) >>

\* the field types: the positions of the fields in the tables
FIELD_NAME == 0
FIELD_INPUT_FILE == 1
FIELD_PATTERN == 2
FIELD_COMPACT_INPUT_LINE == 3
FIELD_ACCESS == 4
FIELD_FILE_SCOPE == 5
FIELD_INHERITANCE == 6
FIELD_KIND_LONG == 7
FIELD_KIND == 8
FIELD_LANGUAGE == 9
FIELD_IMPLEMENTATION == 10
FIELD_LINE_NUMBER == 11
FIELD_SIGNATURE == 12
FIELD_SCOPE == 13
FIELD_TYPE_REF == 14
FIELD_KIND_KEY == 15
FIELD_ROLE == 16
FIELD_REF_MARK == 17
FIELD_SCOPE_KEY == 18
FIELD_EXTRA == 19
FIELD_XPATH == 20
FIELD_SCOPE_KIND_LONG == 21
FIELD_END == 22

\* one fieldObject; def's letter, name and enabled flag are kept in it
FieldObject(def, fixed, nameWithPrefix, language) ==
    [letter |-> def.letter, name |-> def.name, enabled |-> def.enabled,
     fixed |-> fixed, nameWithPrefix |-> nameWithPrefix,
     language |-> language, sibling |-> FIELD_UNKNOWN]

\* the registry initFieldObjects builds
initFieldObjects ==
    [i \in 1..Len(fieldDefinitionsFixed) |->
        FieldObject(fieldDefinitionsFixed[i], TRUE,
                    fieldDefinitionsFixed[i].name, LANG_IGNORE)]
    \o
    [i \in 1..Len(fieldDefinitionsExuberant) |->
        FieldObject(fieldDefinitionsExuberant[i], FALSE,
                    fieldDefinitionsExuberant[i].name, LANG_IGNORE)]
    \o
    [i \in 1..Len(fieldDefinitionsUniversal) |->
        FieldObject(fieldDefinitionsUniversal[i], FALSE,
                    IF fieldDefinitionsUniversal[i].name # NULL
                    THEN CTAGS_FIELD_PREFIX \o fieldDefinitionsUniversal[i].name
                    ELSE NULL,
                    LANG_IGNORE)]

(***************************************************************************)
(* The state.                                                              *)
(***************************************************************************)
VARIABLES
    Option,               \* the options the writer reads
    fieldObjects,         \* the registry: field type t is fieldObjects[t + 1]
    fieldObjectAllocated, \* the capacity of the registry's array
    fieldLog,             \* the latest calls of enableField: [type, state, old]
    initialized,          \* the static flag of getFieldTypeForNameAndLanguage
    parserInitialized,    \* the languages whose parser is initialized
    fp,                   \* TagFile.fp: the records written to the tag file
    etags,                \* TagFile.etags: [fp, byteCount], the etags sidecar
    numTags,              \* TagFile.numTags: [added, prev]
    max,                  \* TagFile.max: [tag, line]
    cork,                 \* TagFile.cork: the nesting depth of corkTagFile
    corkQueue,            \* TagFile.corkQueue: [queue, length, count]
    patternCache,         \* TagFile.patternCacheValid and the statics
                          \* cached_pattern, cached_location
    inputFile,            \* the lines of the input file being parsed
    scopeRefs,            \* the cork indices makeTagEntry has returned to the parser
    tagsLeft,             \* the number of tags the parser has yet to submit
    pc,                   \* "run", or "fatal" after error (FATAL, ...)
    op,                   \* the last operation called
    arg,                  \* its argument
    ret,                  \* its return value
    warned,               \* whether it wrote a warning
    TagsToStdout,         \* the static flag: the tags go to the standard output
    tagFileName,          \* TagFile.name
    disk,                 \* the file of the name Option.tagFileName: its lines
    stdout,               \* the lines written to the standard output
    tempFiles,            \* the names of the temporary files that exist
    physical,             \* the bytes of the tag file when its position was last set
    closing               \* closeTagFile under way: [resize, desiredSize, size]

vars == <<Option, fieldObjects, fieldObjectAllocated, fieldLog, initialized,
          parserInitialized, fp, etags, numTags, max,
          cork, corkQueue, patternCache, inputFile, scopeRefs, tagsLeft, pc, op, arg,
          ret, warned, TagsToStdout, tagFileName, disk, stdout, tempFiles,
          physical, closing>>

fileVars == <<TagsToStdout, tagFileName, disk, stdout, tempFiles, physical, closing>>

writerVars == <<fp, etags, numTags, max, patternCache>>

fieldVars == <<fieldObjects, fieldObjectAllocated, fieldLog, initialized,
               parserInitialized>>

fieldObjectUsed == Len(fieldObjects)

getFieldObject(type) == fieldObjects[type + 1]

\* getFieldDesc of the writer's field.h: the descriptor of a built-in field
getFieldDesc(type) == fieldObjects[type + 1]

getFieldName(type) ==
    IF Option.putFieldPrefix THEN getFieldObject(type).nameWithPrefix
    ELSE getFieldObject(type).name

isFieldEnabled(type) == getFieldObject(type).enabled

isFieldFixed(type) == getFieldObject(type).fixed

(***************************************************************************)
(* Tag entries.  A kind is [letter, name, roles]; NoKind is the NULL       *)
(* pointer to a kind.                                                      *)
(***************************************************************************)
NoKind == [letter |-> 0, name |-> NULL, roles |-> <<>>]

initTagEntryFull(name, lineNumber, language, filePosition, inputFileName, kind, roleIndex, sourceFileName, sourceLanguage, sourceLineNumberDifference) ==
    [name |-> name,
     kind |-> kind,
     lineNumberEntry |-> (Option.locate = "EX_LINENUM"),
     lineNumber |-> lineNumber,
     language |-> language,
     filePosition |-> filePosition,
     inputFileName |-> inputFileName,
     pattern |-> NULL,
     placeholder |-> FALSE,
     isFileEntry |-> FALSE,
     isFileScope |-> FALSE,
     truncateLine |-> FALSE,
     scopeIndex |-> SCOPE_NIL,
     scopeKind |-> NoKind,
     scopeName |-> NULL,
     access |-> NULL,
     fileScope |-> NULL,
     implementation |-> NULL,
     inheritance |-> NULL,
     signature |-> NULL,
     typeRef |-> <<NULL, NULL>>,
     roleIndex |-> roleIndex,
     sourceLanguage |-> sourceLanguage,
     sourceFileName |-> sourceFileName,
     sourceLineNumberDifference |-> sourceLineNumberDifference]

\* the element corkTagFile zeroes at index 0, and a slot never written
ZeroEntry ==
    [name |-> NULL, kind |-> NoKind, lineNumberEntry |-> FALSE, lineNumber |-> 0,
     language |-> NULL, filePosition |-> 0, inputFileName |-> NULL,
     pattern |-> NULL, placeholder |-> FALSE, isFileEntry |-> FALSE,
     isFileScope |-> FALSE, truncateLine |-> FALSE, scopeIndex |-> SCOPE_NIL,
     scopeKind |-> NoKind, scopeName |-> NULL, access |-> NULL,
     fileScope |-> NULL, implementation |-> NULL, inheritance |-> NULL,
     signature |-> NULL, typeRef |-> <<NULL, NULL>>,
     roleIndex |-> 0, sourceLanguage |-> NULL,
     sourceFileName |-> NULL, sourceLineNumberDifference |-> 0]

(***************************************************************************)
(* Reading the input file back (read.c).  A file position is the number    *)
(* of the line that starts there; position 0 is the unset position.        *)
(***************************************************************************)
isPosSet(pos) == pos # 0

readLineFromBypass(pos) ==
    IF pos \in 1..Len(inputFile) THEN inputFile[pos] ELSE NULL

readLineFromBypassSlow(lineNumber, pattern) ==
    IF lineNumber \in 1..Len(inputFile) THEN inputFile[lineNumber] ELSE NULL

RECURSIVE SeekValueOf(_)
\* the byte offset of file position pos
SeekValueOf(pos) ==
    IF pos <= 1 THEN 0
    ELSE SeekValueOf(pos - 1) +
         (IF pos - 1 \in 1..Len(inputFile) THEN Len(inputFile[pos - 1]) ELSE 0)

readLineFromBypassAnyway(tag) ==
    IF isPosSet(tag.filePosition) \/ tag.pattern = NULL
    THEN readLineFromBypass(tag.filePosition)
    ELSE readLineFromBypassSlow(tag.lineNumber, tag.pattern)

(***************************************************************************)
(* The pattern builder.                                                    *)
(***************************************************************************)
\* the index of the first occurrence of token in line, 0 if there is none
strstr(line, token) ==
    LET at == {i \in 1..(Len(line) + 1) :
                 /\ i + Len(token) - 1 <= Len(line)
                 /\ SubSeq(line, i, i + Len(token) - 1) = token}
    IN  IF at = {} THEN 0 ELSE CHOOSE i \in at : \A j \in at : i <= j

truncateTagLine(line, token, discardNewline) ==
    LET p == strstr(line, token)
        q == p + Len(token)
        cq == IF q <= Len(line) THEN line[q] ELSE 0
        stop == IF cq # 0 /\ ~(cq = 10 /\ discardNewline) THEN q + 1 ELSE q
    IN  IF p = 0 THEN line ELSE SubSeq(line, 1, stop - 1)

RECURSIVE appendInputLineLimitFirst(_, _, _)
\* a faulty loop: the limit is tested before the line end
appendInputLineLimitFirst(line, i, length) ==
    IF i > Len(line) THEN [text |-> <<>>, omitted |-> FALSE]
    ELSE
      LET c == line[i]
          next == IF i < Len(line) THEN line[i + 1] ELSE 0
          quoted == \/ c = 92
                    \/ c = (IF Option.backward THEN 63 ELSE 47)
                    \/ (c = 36 /\ (next = 10 \/ next = 13))
          out == IF quoted THEN <<92, c>> ELSE <<c>>
          rest == appendInputLineLimitFirst(line, i + 1, length + Len(out))
      IN  IF length >= Option.patternLengthLimit
          THEN [text |-> <<>>, omitted |-> TRUE]
          ELSE IF c = 13 \/ c = 10 THEN [text |-> <<>>, omitted |-> FALSE]
               ELSE [text |-> out \o rest.text, omitted |-> rest.omitted]

RECURSIVE appendInputLineFrom(_, _, _)
\* the loop of appendInputLine from character i on, length characters written
appendInputLineFrom(line, i, length) ==
    IF i > Len(line) THEN [text |-> <<>>, omitted |-> FALSE]
    ELSE
      LET c == line[i]
          next == IF i < Len(line) THEN line[i + 1] ELSE 0
          quoted == \/ c = 92
                    \/ c = (IF Option.backward THEN 63 ELSE 47)
                    \/ (c = 36 /\ (next = 10 \/ next = 13))
          out == IF quoted THEN <<92, c>> ELSE <<c>>
          rest == appendInputLineFrom(line, i + 1, length + Len(out))
      IN  IF c = 13 \/ c = 10 THEN [text |-> <<>>, omitted |-> FALSE]
          ELSE IF length >= Option.patternLengthLimit
               THEN [text |-> <<>>, omitted |-> TRUE]
               ELSE [text |-> out \o rest.text, omitted |-> rest.omitted]

\* a faulty copy: the characters up to the line end, none of them quoted
appendInputLineVerbatim(line) ==
    [text |-> SubSeq(line, 1, (CHOOSE n \in 0..Len(line) : (n = Len(line) \/ line[n + 1] \in {10, 13}) /\ \A j \in 1..n : line[j] \notin {10, 13})),
     omitted |-> FALSE]

\* [text, omitted]: the characters written, whose number is returned
appendInputLine(line) == appendInputLineFrom(line, 1, 0)

\* what puts_func returns: vstring_puts the number of characters added,
\* file_puts the value of fputs, which the C library chooses (fputsRet)
puts_func(toFile, str, fputsRet) == IF toFile THEN fputsRet ELSE Len(str)

\* a faulty test: the cached pattern serves every position
CacheHitAnywhere(tag, cache) == cache.valid /\ ~tag.truncateLine

\* the test of makePatternStringCommon for the cached pattern
CacheHit(tag, cache) ==
    /\ cache.valid
    /\ ~tag.truncateLine
    /\ tag.filePosition = cache.location

\* [out, length, cache, fatal]: the pattern written to the output, the
\* value returned, the pattern cache afterwards (cache is the one before),
\* and whether it stopped with error (FATAL, "bad tag in ...")
makePatternStringCommon(tag, cache, toFile, fputsRet) ==
    IF CacheHit(tag, cache)
    THEN [out |-> cache.pattern,
          length |-> puts_func(toFile, cache.pattern, fputsRet),
          cache |-> cache, fatal |-> FALSE]
    ELSE
      LET read == readLineFromBypass(tag.filePosition)
          line == IF tag.truncateLine
                  THEN truncateTagLine(read, tag.name, FALSE) ELSE read
          searchChar == IF Option.backward THEN 63 ELSE 47
          terminator == IF Len(line) > 0 /\ line[Len(line)] = 10
                        THEN <<36>> ELSE <<>>
          a == appendInputLine(line)
          term == IF a.omitted THEN <<>> ELSE terminator
          text == <<searchChar, 94>> \o a.text \o term \o <<searchChar>>
      IN  IF read = NULL
          THEN [out |-> <<>>, length |-> 0, cache |-> cache, fatal |-> TRUE]
          ELSE IF ~tag.truncateLine
          THEN [out |-> text, length |-> Len(text),
                cache |-> [valid |-> TRUE, pattern |-> text,
                           location |-> tag.filePosition],
                fatal |-> FALSE]
          ELSE [out |-> text,
                length |-> 2 + Len(a.text) + puts_func(toFile, term, fputsRet) + 1,
                cache |-> cache, fatal |-> FALSE]

\* makePatternString: the pattern built into a fresh string
makePatternString(tag, cache) == makePatternStringCommon(tag, cache, FALSE, 0)

writePatternEntry(tag, cache, fputsRet) ==
    makePatternStringCommon(tag, cache, TRUE, fputsRet)

(***************************************************************************)
(* The renderers behind escapeName.                                        *)
(***************************************************************************)
\* the name as it is
renderFieldNameAsIs(tag) == tag.name

renderFieldName(tag) == renderEscapedName(tag.name)

\* the file name as it is
renderFieldInputAsIs(tag) == tag.inputFileName

renderFieldInput(tag) ==
    renderEscapedString(IF Option.lineDirectives /\ tag.sourceFileName # NULL
                        THEN tag.sourceFileName ELSE tag.inputFileName)

\* the signature as it is
renderFieldSignatureAsIs(tag) == WITH_DEFUALT_VALUE(tag.signature)

renderFieldSignature(tag) ==
    renderEscapedString(WITH_DEFUALT_VALUE(tag.signature))

renderFieldScope(tag) == renderEscapedName(WITH_DEFUALT_VALUE(tag.scopeName))

renderFieldInherits(tag) ==
    renderEscapedString(WITH_DEFUALT_VALUE(tag.inheritance))

renderFieldTyperef(tag) == renderEscapedName(WITH_DEFUALT_VALUE(tag.typeRef[2]))

renderFieldKindName(tag) == tag.kind.name

renderFieldLineNumber(tag) ==
    Decimal(tag.lineNumber +
            (IF Option.lineDirectives /\ tag.sourceLineNumberDifference # 0
             THEN tag.sourceLineNumberDifference ELSE 0))

\* renderRole (kind.c): the role's name
renderRole(role) == role

renderFieldRole(tag) ==
    IF tag.roleIndex = ROLE_INDEX_DEFINITION THEN <<>>
    ELSE renderRole(tag.kind.roles[tag.roleIndex + 1])

renderFieldLanguage(tag) ==
    WITH_DEFUALT_VALUE(IF Option.lineDirectives /\ tag.sourceLanguage # NULL
                       THEN tag.sourceLanguage ELSE tag.language)

isspace(c) == c \in {32, 9, 10, 11, 12, 13}

RECURSIVE SkipSpaces(_, _)
\* the index p reaches in "while (next = *(p+1), isspace (next) && next != NEWLINE) ++p"
SkipSpaces(line, i) ==
    IF i < Len(line) /\ isspace(line[i + 1]) /\ line[i + 1] # 10
    THEN SkipSpaces(line, i + 1) ELSE i

RECURSIVE renderCompactInputLineFrom(_, _, _)
renderCompactInputLineFrom(line, i, lineStarted) ==
    IF i > Len(line) \/ line[i] = 10 THEN <<>>
    ELSE IF lineStarted \/ ~isspace(line[i])
    THEN LET j == IF isspace(line[i]) THEN SkipSpaces(line, i) ELSE i
             c == IF isspace(line[i]) THEN 32 ELSE line[i]
             next == IF j < Len(line) THEN line[j + 1] ELSE 0
         IN  (IF c # 13 \/ next # 10 THEN <<c>> ELSE <<>>)
             \o renderCompactInputLineFrom(line, j + 1, TRUE)
    ELSE renderCompactInputLineFrom(line, i + 1, lineStarted)

renderCompactInputLine(line) == renderCompactInputLineFrom(line, 1, FALSE)

renderFieldCompactInputLine(tag) ==
    LET line == readLineFromBypassAnyway(tag)
    IN  IF line # NULL THEN renderCompactInputLine(line) ELSE <<>>

escapeName(tag, ftype) ==
    CASE ftype = FIELD_NAME        -> renderFieldName(tag)
      [] ftype = FIELD_INPUT_FILE  -> renderFieldInput(tag)
      [] ftype = FIELD_LANGUAGE    -> renderFieldLanguage(tag)
      [] ftype = FIELD_SCOPE       -> renderFieldScope(tag)
      [] ftype = FIELD_TYPE_REF    -> renderFieldTyperef(tag)
      [] ftype = FIELD_INHERITANCE -> renderFieldInherits(tag)
      [] ftype = FIELD_SIGNATURE   -> renderFieldSignature(tag)
      [] ftype = FIELD_ROLE        -> renderFieldRole(tag)
      [] ftype = FIELD_LINE_NUMBER -> renderFieldLineNumber(tag)
      [] ftype = FIELD_KIND_LONG   -> renderFieldKindName(tag)
      [] ftype = FIELD_COMPACT_INPUT_LINE -> renderFieldCompactInputLine(tag)

(***************************************************************************)
(* Reading the cork queue.  A pointer into the queue is the index of the   *)
(* element it points to; the NULL pointer is 0 (queue + 0 is never handed  *)
(* out).                                                                   *)
(***************************************************************************)
getEntryInCorkQueue(n) ==
    IF SCOPE_NIL < n /\ n < corkQueue.count THEN n ELSE 0

countEntryInCorkQueue == corkQueue.count

RECURSIVE ScopeNamesFrom(_, _)
\* the first loop of getFullQualifiedScopeNameFromCorkQueue: the names put
\* on the string list, innermost first.  A walk of more steps than the
\* queue has entries is in a cycle and never returns.
ScopeNamesFrom(scope, fuel) ==
    IF scope = 0 THEN [names |-> <<>>, returns |-> TRUE]
    ELSE IF fuel = 0 THEN [names |-> <<>>, returns |-> FALSE]
    ELSE LET e == corkQueue.queue[scope]
             rest == ScopeNamesFrom(getEntryInCorkQueue(e.scopeIndex), fuel - 1)
         IN  [names |-> (IF ~e.placeholder
                         THEN <<escapeName(e, FIELD_NAME)>> ELSE <<>>)
                        \o rest.names,
              returns |-> rest.returns]

RECURSIVE JoinFirstLast(_)
\* a faulty join: the list's strings from the first to the last
JoinFirstLast(names) ==
    IF names = <<>> THEN <<>>
    ELSE names[1]
         \o (IF Len(names) # 1 THEN <<46>> ELSE <<>>)
         \o JoinFirstLast(Tail(names))

RECURSIVE JoinLastFirst(_)
\* its second loop: the list's strings from the last to the first, a '.'
\* after each but the one taken last
JoinLastFirst(names) ==
    IF names = <<>> THEN <<>>
    ELSE names[Len(names)]
         \o (IF Len(names) # 1 THEN <<46>> ELSE <<>>)
         \o JoinLastFirst(SubSeq(names, 1, Len(names) - 1))

\* [name, returns]
getFullQualifiedScopeNameFromCorkQueue(inner_scope) ==
    LET walk == ScopeNamesFrom(inner_scope, corkQueue.count)
    IN  [name |-> JoinLastFirst(walk.names), returns |-> walk.returns]

(***************************************************************************)
(* The writers.                                                            *)
(***************************************************************************)
includeExtensionFlags == Option.tagFileFormat > 1

\* "\t<key>:<value>"
KeyValue(key, value) == <<9>> \o key \o <<58>> \o value

\* the key of the scope field
ScopeKey ==
    IF getFieldDesc(FIELD_SCOPE_KEY).enabled
    THEN getFieldName(FIELD_SCOPE_KEY) \o <<58>> ELSE <<>>

\* the scope field printed from a kind name and a scope name: [text, ub,
\* returns]; returns is FALSE when the scope name is never worked out, ub
\* TRUE when the read of the kind name faults
ScopeText(kindName, full) ==
    IF ~full.returns THEN [text |-> <<>>, ub |-> FALSE, returns |-> FALSE]
    ELSE IF kindName = NULL THEN [text |-> <<>>, ub |-> TRUE, returns |-> TRUE]
    ELSE [text |-> <<9>> \o ScopeKey \o kindName \o <<58>> \o full.name,
          ub |-> FALSE, returns |-> TRUE]

\* the scope field of a tag that names its scope by cork index; scope is what
\* getEntryInCorkQueue returned, and scope->kind->name read through a NULL
\* pointer is what the platform makes of it (nullRead)
ScopeFromQueue(scope, nullRead) ==
    ScopeText(IF scope = 0 THEN nullRead
              ELSE IF corkQueue.queue[scope].kind.name = NULL THEN nullRead
              ELSE corkQueue.queue[scope].kind.name,
              getFullQualifiedScopeNameFromCorkQueue(scope))

\* a faulty scope field: none is printed
ScopeFieldNever(tag, nullRead) ==
    [text |-> <<>>, ub |-> FALSE, returns |-> TRUE]

\* the scope field of addExtensionFields: [text, ub, returns]
ScopeField(tag, nullRead) ==
    IF ~getFieldDesc(FIELD_SCOPE).enabled
    THEN [text |-> <<>>, ub |-> FALSE, returns |-> TRUE]
    ELSE IF tag.scopeKind # NoKind /\ tag.scopeName # NULL
    THEN ScopeText(IF tag.scopeKind.name = NULL THEN nullRead
                   ELSE tag.scopeKind.name,
                   [name |-> escapeName(tag, FIELD_SCOPE), returns |-> TRUE])
    ELSE IF tag.scopeIndex # SCOPE_NIL /\ corkQueue.count > 0
    THEN ScopeFromQueue(getEntryInCorkQueue(tag.scopeIndex), nullRead)
    ELSE [text |-> <<>>, ub |-> FALSE, returns |-> TRUE]

\* a faulty kind field: written only when its long form is enabled
KindFieldOfName(tag) ==
    IF tag.kind.name # NULL /\ getFieldDesc(FIELD_KIND_LONG).enabled
    THEN <<9>> \o (IF getFieldDesc(FIELD_KIND_KEY).enabled
                   THEN getFieldName(FIELD_KIND_KEY) \o <<58>> ELSE <<>>)
               \o tag.kind.name
    ELSE <<>>

\* the kind field of addExtensionFields
KindField(tag) ==
    LET kindKey == IF getFieldDesc(FIELD_KIND_KEY).enabled
                   THEN getFieldName(FIELD_KIND_KEY) \o <<58>> ELSE <<>>
    IN  IF /\ tag.kind.name # NULL
           /\ \/ getFieldDesc(FIELD_KIND_LONG).enabled
              \/ (getFieldDesc(FIELD_KIND).enabled /\ tag.kind = NoKind)
        THEN <<9>> \o kindKey \o tag.kind.name
        ELSE IF /\ tag.kind # NoKind
                /\ \/ getFieldDesc(FIELD_KIND).enabled
                   \/ (getFieldDesc(FIELD_KIND_LONG).enabled /\ tag.kind.name = NULL)
        THEN <<9>> \o kindKey \o <<tag.kind.letter>>
        ELSE <<>>

\* a faulty separator: ;" is written whether or not a field follows
WithSepAlways(all) == <<59, 34>> \o all

\* the separator ;" before the first extension field written
WithSep(all) == IF all = <<>> THEN <<>> ELSE <<59, 34>> \o all

\* addExtensionFields once its scope field is worked out
ExtensionFields(tag, scope) ==
    [text |-> WithSep(Concat(
          << KindField(tag),
             IF getFieldDesc(FIELD_LINE_NUMBER).enabled
             THEN KeyValue(getFieldName(FIELD_LINE_NUMBER), Decimal(tag.lineNumber))
             ELSE <<>>,
             IF getFieldDesc(FIELD_LANGUAGE).enabled /\ tag.language # NULL
             THEN KeyValue(getFieldName(FIELD_LANGUAGE), escapeName(tag, FIELD_LANGUAGE))
             ELSE <<>>,
             scope.text,
             IF /\ getFieldDesc(FIELD_TYPE_REF).enabled
                /\ tag.typeRef[1] # NULL /\ tag.typeRef[2] # NULL
             THEN KeyValue(getFieldName(FIELD_TYPE_REF),
                           tag.typeRef[1] \o <<58>> \o escapeName(tag, FIELD_TYPE_REF))
             ELSE <<>>,
             IF getFieldDesc(FIELD_FILE_SCOPE).enabled /\ tag.isFileScope
             THEN KeyValue(getFieldName(FIELD_FILE_SCOPE), <<>>)
             ELSE <<>>,
             IF getFieldDesc(FIELD_INHERITANCE).enabled /\ tag.inheritance # NULL
             THEN KeyValue(getFieldName(FIELD_INHERITANCE), escapeName(tag, FIELD_INHERITANCE))
             ELSE <<>>,
             IF getFieldDesc(FIELD_ACCESS).enabled /\ tag.access # NULL
             THEN KeyValue(getFieldName(FIELD_ACCESS), tag.access)
             ELSE <<>>,
             IF getFieldDesc(FIELD_IMPLEMENTATION).enabled /\ tag.implementation # NULL
             THEN KeyValue(getFieldName(FIELD_IMPLEMENTATION), tag.implementation)
             ELSE <<>>,
             IF getFieldDesc(FIELD_SIGNATURE).enabled /\ tag.signature # NULL
             THEN KeyValue(getFieldName(FIELD_SIGNATURE), escapeName(tag, FIELD_SIGNATURE))
             ELSE <<>>,
             IF getFieldDesc(FIELD_ROLE).enabled /\ tag.roleIndex # ROLE_INDEX_DEFINITION
             THEN KeyValue(getFieldName(FIELD_ROLE), escapeName(tag, FIELD_ROLE))
             ELSE <<>> >>)),
     ub |-> scope.ub,
     returns |-> scope.returns]

\* [text, ub, returns]: the characters written, whose number is returned
addExtensionFields(tag, nullRead) ==
    ExtensionFields(tag, ScopeField(tag, nullRead))

writeLineNumberEntry(tag) ==
    IF Option.lineDirectives THEN escapeName(tag, FIELD_LINE_NUMBER)
    ELSE Digits(tag.lineNumber)

\* an address written without the pattern builder
Address(out, cache) ==
    [out |-> out, length |-> Len(out), cache |-> cache, fatal |-> FALSE]

\* the record of writeCtagsEntry put together: the name and the file, the
\* address, the extension fields, the newline.  The result is [W, length]:
\* the writer's state afterwards and the length returned.
CtagsRecord(W, head, addr, ext) ==
    IF addr.fatal
    THEN [W |-> [W EXCEPT !.fp = Append(@, head), !.pc = "fatal"], length |-> 0]
    ELSE IF ~ext.returns THEN [W |-> [W EXCEPT !.pc = "hung"], length |-> 0]
    ELSE IF ext.ub THEN [W |-> [W EXCEPT !.pc = "fault"], length |-> 0]
    ELSE [W |-> [W EXCEPT !.fp = Append(@, head \o addr.out \o ext.text \o <<10>>),
                          !.cache = addr.cache],
          length |-> Len(head) + addr.length + Len(ext.text) + 1]

writeCtagsEntry(tag, W, env) ==
    CtagsRecord(W,
        escapeName(tag, FIELD_NAME) \o <<9>>
            \o escapeName(tag, FIELD_INPUT_FILE) \o <<9>>,
        IF tag.lineNumberEntry THEN Address(writeLineNumberEntry(tag), W.cache)
        ELSE IF tag.pattern # NULL THEN Address(tag.pattern, W.cache)
        ELSE writePatternEntry(tag, W.cache, env.fputsRet),
        IF includeExtensionFlags THEN addExtensionFields(tag, env.nullRead)
        ELSE [text |-> <<>>, ub |-> FALSE, returns |-> TRUE])

(***************************************************************************)
(* The cross-reference writer.  fmtPrint is fmt.c's: a format is a         *)
(* sequence of elements [lit, letter, width], a literal character (letter  *)
(* 0) or a field letter with a printf width.                               *)
(***************************************************************************)
FmtLit(c) == [lit |-> c, letter |-> 0, width |-> 0]

FmtField(letter, width) == [lit |-> 0, letter |-> letter, width |-> width]

\* the NULL format
NoFormat == << FmtLit(-1) >>

RECURSIVE Spaces(_)
Spaces(n) == IF n <= 0 THEN <<>> ELSE <<32>> \o Spaces(n - 1)

\* printf's %<width>s
Padded(str, width) ==
    IF width < 0 THEN str \o Spaces((-width) - Len(str))
    ELSE Spaces(width - Len(str)) \o str

FmtValue(letter, tag) ==
    CASE letter = 78  -> escapeName(tag, FIELD_NAME)
      [] letter = 75  -> escapeName(tag, FIELD_KIND_LONG)
      [] letter = 110 -> escapeName(tag, FIELD_LINE_NUMBER)
      [] letter = 70  -> escapeName(tag, FIELD_INPUT_FILE)
      [] letter = 67  -> escapeName(tag, FIELD_COMPACT_INPUT_LINE)

RECURSIVE fmtPrint(_, _)
fmtPrint(fmt, tag) ==
    IF fmt = <<>> THEN <<>>
    ELSE (IF Head(fmt).letter = 0 THEN <<Head(fmt).lit>>
          ELSE Padded(FmtValue(Head(fmt).letter, tag), Head(fmt).width))
         \o fmtPrint(Tail(fmt), tag)

\* "%-16N %4n %-16F %C"
fmt1 ==
    << FmtField(78, -16), FmtLit(32), FmtField(110, 4), FmtLit(32),
       FmtField(70, -16), FmtLit(32), FmtField(67, 0) >>

\* "%-16N %-10K %4n %-16F %C"
fmt2 ==
    << FmtField(78, -16), FmtLit(32), FmtField(75, -10), FmtLit(32),
       FmtField(110, 4), FmtLit(32), FmtField(70, -16), FmtLit(32),
       FmtField(67, 0) >>

\* a record put on the tag file: [W, length]
PutRecord(W, text) ==
    [W |-> [W EXCEPT !.fp = Append(@, text)], length |-> Len(text)]

writeXrefEntry(tag, W) ==
    IF Option.customXfmt # NoFormat
    THEN PutRecord(W, fmtPrint(Option.customXfmt, tag) \o <<10>>)
    ELSE IF tag.isFileEntry THEN [W |-> W, length |-> 0]
    ELSE PutRecord(W, fmtPrint(IF Option.tagFileFormat = 1 THEN fmt1 ELSE fmt2, tag)
                      \o <<10>>)

\* a faulty record: written to the sidecar and not counted
PutEtagsRecordUncounted(W, text) ==
    [W |-> [W EXCEPT !.etags.fp = Append(@, text)], length |-> Len(text)]

\* a record put on the sidecar TagFile.etags.fp: [W, length]
PutEtagsRecord(W, text) ==
    [W |-> [W EXCEPT !.etags.fp = Append(@, text),
                     !.etags.byteCount = @ + Len(text)],
     length |-> Len(text)]

\* writeEtagsEntry for a tag that is no file entry, its line read
EtagsTagRecord(tag, W, line) ==
    IF line = NULL THEN [W |-> W, length |-> 0]
    ELSE PutEtagsRecord(W,
            (IF tag.truncateLine THEN truncateTagLine(line, tag.name, TRUE)
             ELSE SubSeq(line, 1, Len(line) - 1))
            \o <<127>> \o tag.name \o <<1>> \o Digits(tag.lineNumber) \o <<44>>
            \o Decimal(SeekValueOf(IF isPosSet(tag.filePosition) \/ tag.pattern = NULL
                                   THEN tag.filePosition ELSE tag.lineNumber))
            \o <<10>>)

writeEtagsEntry(tag, W) ==
    IF tag.isFileEntry
    THEN PutEtagsRecord(W, <<127>> \o tag.name \o <<1>> \o Digits(tag.lineNumber)
                           \o <<44, 48, 10>>)
    ELSE EtagsTagRecord(tag, W, readLineFromBypassAnyway(tag))

rememberMaxLengths(m, nameLength, lineLength) ==
    [tag  |-> IF nameLength > m.tag THEN nameLength ELSE m.tag,
     line |-> IF lineLength > m.line THEN lineLength ELSE m.line]

\* a faulty end of writeTagEntry: the tag is counted twice
CountedTwice(r, tag, ferror) ==
    IF r.W.pc # "run" THEN r.W
    ELSE [r.W EXCEPT !.numTags.added = @ + 2,
                     !.max = rememberMaxLengths(@, Len(tag.name), r.length),
                     !.pc = IF ferror THEN "fatal" ELSE @]

\* the end of writeTagEntry, r = [W, length] what the writer did: the tag is
\* counted, the lengths are remembered, and a stream in error stops the program
Counted(r, tag, ferror) ==
    IF r.W.pc # "run" THEN r.W
    ELSE [r.W EXCEPT !.numTags.added = @ + 1,
                     !.max = rememberMaxLengths(@, Len(tag.name), r.length),
                     !.pc = IF ferror THEN "fatal" ELSE @]

\* a faulty writeTagEntry: a placeholder is written like any tag
writeTagEntryOfAny(tag, W, env) ==
    IF W.pc # "run" THEN W
    ELSE Counted(IF Option.xref THEN writeXrefEntry(tag, W)
                 ELSE IF Option.etags THEN writeEtagsEntry(tag, W)
                 ELSE writeCtagsEntry(tag, W, env),
                 tag, env.ferror)

\* writeTagEntry on the writer's state W = [fp, etags, numTags, max, cache, pc];
\* a program that has stopped writes nothing.  env is what the platform does:
\* [fputsRet, ferror, nullRead]
writeTagEntry(tag, W, env) ==
    IF W.pc # "run" \/ tag.placeholder THEN W
    ELSE Counted(IF Option.xref THEN writeXrefEntry(tag, W)
                 ELSE IF Option.etags THEN writeEtagsEntry(tag, W)
                 ELSE writeCtagsEntry(tag, W, env),
                 tag, env.ferror)

(***************************************************************************)
(* The cork queue.                                                         *)
(***************************************************************************)
\* the NULL queue array
NoQueue == [i \in {} |-> ZeroEntry]

\* the content of memory that eRealloc hands out and nothing has written
Indeterminate == [ZeroEntry EXCEPT !.name = <<-2>>]

\* the copy of a tag whose pattern makePatternString has built
WithPattern(tag, built) ==
    [slot |-> [tag EXCEPT !.pattern = built.out],
     cache |-> built.cache, fatal |-> built.fatal]

\* a pointer to a string of the caller: what it points to is the caller's
\* to change once makeTagEntry has returned
Borrowed(s) == IF s = NULL THEN NULL ELSE <<-3>> \o s

\* a string of the entry's own, with the characters the pointer points to
\* at the time of the call
eStrdup(p) == IF p # <<>> /\ p[1] = -3 THEN Tail(p) ELSE p

\* *slot = *tag: every string pointer of the slot is the caller's
BorrowedStrings(tag) ==
    [tag EXCEPT !.pattern = Borrowed(@), !.inputFileName = Borrowed(@),
                !.name = Borrowed(@), !.access = Borrowed(@),
                !.fileScope = Borrowed(@), !.implementation = Borrowed(@),
                !.inheritance = Borrowed(@), !.scopeName = Borrowed(@),
                !.signature = Borrowed(@),
                !.typeRef = <<Borrowed(@[1]), Borrowed(@[2])>>,
                !.sourceLanguage = Borrowed(@), !.sourceFileName = Borrowed(@)]

\* a faulty copy: the name stays the caller's
DuplicatedButName(slot) ==
    [slot EXCEPT !.inputFileName = eStrdup(@),
                 !.access = IF @ # NULL THEN eStrdup(@) ELSE @,
                 !.fileScope = IF @ # NULL THEN eStrdup(@) ELSE @,
                 !.implementation = IF @ # NULL THEN eStrdup(@) ELSE @,
                 !.inheritance = IF @ # NULL THEN eStrdup(@) ELSE @,
                 !.scopeName = IF @ # NULL THEN eStrdup(@) ELSE @,
                 !.signature = IF @ # NULL THEN eStrdup(@) ELSE @,
                 !.typeRef = <<IF @[1] # NULL THEN eStrdup(@[1]) ELSE @[1],
                               IF @[2] # NULL THEN eStrdup(@[2]) ELSE @[2]>>,
                 !.sourceLanguage = IF @ # NULL THEN eStrdup(@) ELSE @,
                 !.sourceFileName = IF @ # NULL THEN eStrdup(@) ELSE @]

\* the strings of the slot duplicated, but for the pattern
Duplicated(slot) ==
    [slot EXCEPT !.inputFileName = eStrdup(@),
                 !.name = eStrdup(@),
                 !.access = IF @ # NULL THEN eStrdup(@) ELSE @,
                 !.fileScope = IF @ # NULL THEN eStrdup(@) ELSE @,
                 !.implementation = IF @ # NULL THEN eStrdup(@) ELSE @,
                 !.inheritance = IF @ # NULL THEN eStrdup(@) ELSE @,
                 !.scopeName = IF @ # NULL THEN eStrdup(@) ELSE @,
                 !.signature = IF @ # NULL THEN eStrdup(@) ELSE @,
                 !.typeRef = <<IF @[1] # NULL THEN eStrdup(@[1]) ELSE @[1],
                               IF @[2] # NULL THEN eStrdup(@[2]) ELSE @[2]>>,
                 !.sourceLanguage = IF @ # NULL THEN eStrdup(@) ELSE @,
                 !.sourceFileName = IF @ # NULL THEN eStrdup(@) ELSE @]

\* [slot, cache, fatal]: the copy stored in the queue; every string is
\* duplicated, and a pattern is built for a tag that has none and is not a
\* line-number entry (makePatternString reads the caller's strings while
\* they are as the caller passed them)
recordTagEntryInQueue(tag, cache) ==
    LET slot == BorrowedStrings(tag)
    IN  IF slot.pattern # NULL
        THEN [slot |-> Duplicated([slot EXCEPT !.pattern = eStrdup(@)]),
              cache |-> cache, fatal |-> FALSE]
        ELSE IF ~slot.lineNumberEntry
        THEN LET made == WithPattern(slot, makePatternString(tag, cache))
             IN  [made EXCEPT !.slot = Duplicated(@)]
        ELSE [slot |-> Duplicated(slot), cache |-> cache, fatal |-> FALSE]

\* the length queueTagEntry grows a full array to
GrownLength(q) == (IF q.length = 0 THEN 1 ELSE q.length) * 2

\* a faulty growth: the grown array does not keep the content
GrownFresh(q) ==
    IF q.count < q.length THEN q
    ELSE [q EXCEPT !.length = GrownLength(q),
                   !.queue = [k \in 0..(GrownLength(q) - 1) |-> Indeterminate]]

\* the array after the growth step of queueTagEntry: eRealloc keeps the
\* content and hands out the rest unwritten
Grown(q) ==
    IF q.count < q.length THEN q
    ELSE [q EXCEPT !.length = GrownLength(q),
                   !.queue = [k \in 0..(GrownLength(q) - 1) |->
                                 IF k \in DOMAIN q.queue THEN q.queue[k]
                                 ELSE Indeterminate]]

\* the tag recorded in the slot at count, whose index is returned
Stored(q, rec) ==
    [queue |-> [q EXCEPT !.queue[q.count] = rec.slot, !.count = @ + 1],
     i |-> q.count, cache |-> rec.cache, fatal |-> rec.fatal]

\* [queue, i, cache, fatal]: the queue afterwards and the index returned
queueTagEntry(tag, cache) ==
    Stored(Grown(corkQueue), recordTagEntryInQueue(tag, cache))

(***************************************************************************)
(* The operations of entry.c.                                              *)
(***************************************************************************)
\* the state the writer works on
Writer ==
    [fp |-> fp, etags |-> etags, numTags |-> numTags, max |-> max,
     cache |-> patternCache, pc |-> pc]

\* what fputs returns on success: "a non-negative value"
FputsReturns == {0, 1}

\* what reading a string through a NULL pointer does: the program faults
\* (NULL), or the read yields some bytes ("?")
NullReads == {NULL, <<63>>}

\* what the platform does during one call
Environments ==
    [fputsRet : FputsReturns, ferror : BOOLEAN, nullRead : NullReads]

RECURSIVE FlushFromLast(_, _, _)
\* a faulty flush: the queue written from its last entry to its first
FlushFromLast(i, W, env) ==
    IF i < corkQueue.count
    THEN writeTagEntry(corkQueue.queue[i], FlushFromLast(i + 1, W, env), env)
    ELSE W

RECURSIVE FlushFrom(_, _, _)
\* the first loop of uncorkTagFile, from index i on
FlushFrom(i, W, env) ==
    IF i < corkQueue.count
    THEN FlushFrom(i + 1, writeTagEntry(corkQueue.queue[i], W, env), env)
    ELSE W

\* a faulty test: no tag is taken for a null tag
IsNullTagNever(tag) == FALSE

\* the test of makeTagEntry for the tag it ignores
IsNullTag(tag) == tag.name = <<>> /\ ~tag.placeholder

\* the languages of the input (the parser table is not part of this model):
\* "C", and "X", the one whose definition sets allowNullTag
N_lang == <<67>>

N_langX == <<88>>

\* the tag's language is the input file's, by initTagEntry
doesInputLanguageAllowNullTag(language) == language = N_langX

\* the writer's state W stored back
SetWriter(W) ==
    /\ fp' = W.fp
    /\ etags' = W.etags
    /\ numTags' = W.numTags
    /\ max' = W.max
    /\ patternCache' = W.cache
    /\ pc' = W.pc

corkTagFile ==
    /\ pc = "run"
    /\ cork < MaxCork
    /\ cork' = cork + 1
    /\ corkQueue' = IF cork' = 1
                    THEN [queue |-> [i \in {0} |-> ZeroEntry],
                          length |-> 1, count |-> 1]
                    ELSE corkQueue
    /\ op' = "corkTagFile" /\ arg' = <<>> /\ ret' = 0 /\ warned' = FALSE
    /\ UNCHANGED <<fileVars, Option, fieldVars, writerVars, inputFile, scopeRefs, tagsLeft, pc>>

\* a faulty uncork: every uncork flushes, whatever the depth it leaves
uncorkTagFileAtAnyDepth ==
    /\ pc = "run"
    /\ cork > 0
    /\ cork' = cork - 1
    /\ \E env \in Environments : SetWriter(FlushFrom(1, Writer, env))
    /\ corkQueue' = IF pc' = "run"
                    THEN [queue |-> NoQueue, length |-> 0, count |-> 0]
                    ELSE corkQueue
    /\ op' = "uncorkTagFile" /\ arg' = <<>> /\ ret' = 0 /\ warned' = FALSE
    /\ UNCHANGED <<fileVars, Option, fieldVars, inputFile, scopeRefs, tagsLeft>>

uncorkTagFile ==
    /\ pc = "run"
    /\ cork > 0
    /\ cork' = cork - 1
    /\ IF cork' > 0
       THEN UNCHANGED <<writerVars, corkQueue, pc>>
       ELSE /\ \E env \in Environments : SetWriter(FlushFrom(1, Writer, env))
            /\ corkQueue' = IF pc' = "run"
                            THEN [queue |-> NoQueue, length |-> 0, count |-> 0]
                            ELSE corkQueue
    /\ op' = "uncorkTagFile" /\ arg' = <<>> /\ ret' = 0 /\ warned' = FALSE
    /\ UNCHANGED <<fileVars, Option, fieldVars, inputFile, scopeRefs, tagsLeft>>

\* makeTagEntry with the cork in: q is what queueTagEntry did
Queued(q) ==
    IF q.fatal
    THEN /\ pc' = "fatal"
         /\ ret' = SCOPE_NIL
         /\ UNCHANGED <<writerVars, corkQueue, scopeRefs>>
    ELSE /\ corkQueue' = q.queue
         /\ patternCache' = q.cache
         /\ ret' = q.i
         /\ scopeRefs' = scopeRefs \cup {q.i}
         /\ UNCHANGED <<fp, etags, numTags, max, pc>>

makeTagEntry(tag) ==
    /\ pc = "run"
    /\ tagsLeft > 0
    /\ tagsLeft' = tagsLeft - 1
    /\ op' = "makeTagEntry"
    /\ arg' = tag
    /\ IF IsNullTag(tag)
       THEN /\ warned' = ~doesInputLanguageAllowNullTag(tag.language)
            /\ ret' = SCOPE_NIL
            /\ UNCHANGED <<writerVars, corkQueue, scopeRefs, pc>>
       ELSE IF cork # 0
       THEN /\ warned' = FALSE
            /\ Queued(queueTagEntry(tag, patternCache))
       ELSE /\ warned' = FALSE
            /\ \E env \in Environments : SetWriter(writeTagEntry(tag, Writer, env))
            /\ ret' = SCOPE_NIL
            /\ UNCHANGED <<corkQueue, scopeRefs>>
    /\ UNCHANGED <<fileVars, Option, fieldVars, inputFile, cork>>

(***************************************************************************)
(* The parser that submits the tags (the parsers are not part of this      *)
(* model): it builds each tag with initTagEntryFull and then sets the      *)
(* fields of its own; the scopeIndex it passes is 0 or a cork index that   *)
(* makeTagEntry has returned to it (scopeRefs).                            *)
(***************************************************************************)
\* "Foo"
N_Foo == <<70,111,111>>
\* "b\" (a name with a backslash)
N_b == <<98,92>>
\* "anon"
N_P == <<97,110,111,110>>
\* "a.c"
N_file == <<97,46,99>>
ClassKind == [letter |-> 99, name |-> <<99,108,97,115,115>>, roles |-> <<>>]

FunctionKind ==
    [letter |-> 102, name |-> <<102,117,110,99,116,105,111,110>>, roles |-> <<>>]

FileKind == [letter |-> 70, name |-> S_file, roles |-> <<>>]

StructKind == [letter |-> 115, name |-> <<115,116,114,117,99,116>>, roles |-> <<>>]

\* "Foo/\n" and "b\$\n"
SourceLines == << <<70,111,111,47,10>>, <<98,92,36,10>> >>

NewTag(name, line, kind) ==
    initTagEntryFull(name, line, N_lang, line, N_file, kind,
                     ROLE_INDEX_DEFINITION, NULL, NULL, 0)

\* the tags of a parser of nested scopes
ScopedTags ==
    {NewTag(N_Foo, 1, ClassKind), NewTag(<<>>, 2, FunctionKind),
     [NewTag(<<>>, 2, FunctionKind) EXCEPT !.language = N_langX]}
    \cup
    {[t EXCEPT !.scopeIndex = s] :
        t \in {NewTag(N_b, 2, FunctionKind),
               [NewTag(N_P, 1, StructKind) EXCEPT !.placeholder = TRUE]},
        s \in {SCOPE_NIL} \cup scopeRefs}
    \cup
    {[NewTag(N_b, 2, FunctionKind) EXCEPT !.scopeKind = ClassKind,
                                          !.scopeName = N_P,
                                          !.scopeIndex = s] : s \in scopeRefs}

\* the tags of a parser without scopes, of a file of two lines
FlatTags ==
    {NewTag(N_Foo, 1, ClassKind),
     NewTag(N_b, 2, FunctionKind),
     NewTag(<<>>, 2, FunctionKind),
     [NewTag(<<>>, 2, FunctionKind) EXCEPT !.language = N_langX],
     NewTag(N_b, 3, FunctionKind),
     [NewTag(N_file, 1, FileKind) EXCEPT !.isFileEntry = TRUE],
     [NewTag(N_P, 1, ClassKind) EXCEPT !.placeholder = TRUE]}

ParserTags ==
    IF Option.xref \/ Option.etags \/ ~includeExtensionFlags THEN FlatTags
    ELSE ScopedTags

(***************************************************************************)
(* The runs of the writer and the cork queue.                              *)
(***************************************************************************)
\* "tags", the default name of the tag file, and "-", the standard output
S_tags == <<116,97,103,115>>

S_dash == <<45>>

\* the values of Option.sorted
SO_UNSORTED == 0

SO_SORTED == 1

SO_FOLDSORTED == 2

\* no closeTagFile under way
NotClosing == [resize |-> FALSE, desiredSize |-> 0, size |-> 0]

DefaultOption ==
    [tagFileFormat |-> 2, xref |-> FALSE, etags |-> FALSE,
     customXfmt |-> NoFormat, backward |-> FALSE, patternLengthLimit |-> 96,
     lineDirectives |-> FALSE, putFieldPrefix |-> FALSE, locate |-> "EX_MIX",
     tagFileName |-> S_tags, append |-> FALSE, sorted |-> SO_SORTED,
     pseudoTags |-> TRUE]

\* the options and the registry after the command line is read: the
\* extended ctags format, with and without the scope field
Configurations ==
    { <<DefaultOption, initFieldObjects>>,
      <<DefaultOption, [initFieldObjects EXCEPT ![FIELD_SCOPE + 1].enabled = FALSE]>> }

\* the original ctags format, the cross-reference and the etags output
FlatConfigurations ==
    { <<[DefaultOption EXCEPT !.tagFileFormat = 1], initFieldObjects>>,
      <<[DefaultOption EXCEPT !.xref = TRUE], initFieldObjects>>,
      <<[DefaultOption EXCEPT !.etags = TRUE], initFieldObjects>> }

\* the tag file and the registry at the start, whatever the input file
InitOutput ==
    /\ fieldObjectAllocated = Len(initFieldObjects)
    /\ fieldLog = <<>>
    /\ initialized = FALSE
    /\ parserInitialized = {}
    /\ fp = <<>>
    /\ etags = [fp |-> <<>>, byteCount |-> 0]
    /\ numTags = [added |-> 0, prev |-> 0]
    /\ max = [tag |-> 0, line |-> 0]
    /\ cork = 0
    /\ corkQueue = [queue |-> NoQueue, length |-> 0, count |-> 0]
    /\ patternCache = [valid |-> FALSE, pattern |-> NULL, location |-> 0]
    /\ scopeRefs = {}
    /\ tagsLeft = MaxTags
    /\ pc = "run"
    /\ op = "init" /\ arg = <<>> /\ ret = 0 /\ warned = FALSE
    /\ TagsToStdout = FALSE
    /\ tagFileName = Option.tagFileName
    /\ disk = <<>>
    /\ stdout = <<>>
    /\ tempFiles = {}
    /\ physical = <<>>
    /\ closing = NotClosing

\* the tag file opened and nothing written
InitTagFile ==
    /\ inputFile = SourceLines
    /\ InitOutput

Init ==
    /\ \E c \in Configurations : Option = c[1] /\ fieldObjects = c[2]
    /\ InitTagFile

InitFlat ==
    /\ \E c \in FlatConfigurations : Option = c[1] /\ fieldObjects = c[2]
    /\ InitTagFile

Next ==
    \/ corkTagFile
    \/ uncorkTagFile
    \/ \E tag \in ParserTags : makeTagEntry(tag)

Spec == Init /\ [][Next]_vars

SpecFlat == InitFlat /\ [][Next]_vars

(***************************************************************************)
(* The field registry's operations, called between initFieldObjects and    *)
(* the first tag.                                                          *)
(***************************************************************************)
\* the log with one more call, the oldest forgotten when MaxLog are held
Logged(call) ==
    IF Len(fieldLog) < MaxLog THEN Append(fieldLog, call)
    ELSE Append(Tail(fieldLog), call)

\* a faulty enableField: the state is set whether the field is fixed or not
enableFieldOfAny(type, state, warnIfFixedField) ==
    /\ pc = "run"
    /\ ret' = getFieldObject(type).enabled
    /\ fieldObjects' = [fieldObjects EXCEPT ![type + 1].enabled = state]
    /\ warned' = (isFieldFixed(type) /\ ~state /\ warnIfFixedField)
    /\ fieldLog' = Logged([type |-> type, state |-> state,
                            old |-> getFieldObject(type).enabled])
    /\ op' = "enableField"
    /\ arg' = <<type, state, warnIfFixedField>>
    /\ UNCHANGED <<fileVars, Option, fieldObjectAllocated, initialized, parserInitialized,
                   writerVars, cork, corkQueue, inputFile, scopeRefs, tagsLeft, pc>>

\* a faulty enableField: a field once disabled is not enabled again
enableFieldSticky(type, state, warnIfFixedField) ==
    /\ pc = "run"
    /\ ret' = getFieldObject(type).enabled
    /\ fieldObjects' = IF isFieldFixed(type) THEN fieldObjects
                       ELSE [fieldObjects EXCEPT ![type + 1].enabled = state /\ @]
    /\ warned' = (isFieldFixed(type) /\ ~state /\ warnIfFixedField)
    /\ fieldLog' = Logged([type |-> type, state |-> state,
                            old |-> getFieldObject(type).enabled])
    /\ op' = "enableField"
    /\ arg' = <<type, state, warnIfFixedField>>
    /\ UNCHANGED <<fileVars, Option, fieldObjectAllocated, initialized, parserInitialized,
                   writerVars, cork, corkQueue, inputFile, scopeRefs, tagsLeft, pc>>

\* a faulty enableField: what it returns is the state it was given
enableFieldReturnsNew(type, state, warnIfFixedField) ==
    /\ pc = "run"
    /\ ret' = state
    /\ fieldObjects' = IF isFieldFixed(type) THEN fieldObjects
                       ELSE [fieldObjects EXCEPT ![type + 1].enabled = state]
    /\ warned' = (isFieldFixed(type) /\ ~state /\ warnIfFixedField)
    /\ fieldLog' = Logged([type |-> type, state |-> state,
                            old |-> getFieldObject(type).enabled])
    /\ op' = "enableField"
    /\ arg' = <<type, state, warnIfFixedField>>
    /\ UNCHANGED <<fileVars, Option, fieldObjectAllocated, initialized, parserInitialized,
                   writerVars, cork, corkQueue, inputFile, scopeRefs, tagsLeft, pc>>

enableField(type, state, warnIfFixedField) ==
    /\ pc = "run"
    /\ ret' = getFieldObject(type).enabled
    /\ fieldObjects' = IF isFieldFixed(type) THEN fieldObjects
                       ELSE [fieldObjects EXCEPT ![type + 1].enabled = state]
    /\ warned' = (isFieldFixed(type) /\ ~state /\ warnIfFixedField)
    /\ fieldLog' = Logged([type |-> type, state |-> state,
                            old |-> getFieldObject(type).enabled])
    /\ op' = "enableField"
    /\ arg' = <<type, state, warnIfFixedField>>
    /\ UNCHANGED <<fileVars, Option, fieldObjectAllocated, initialized, parserInitialized,
                   writerVars, cork, corkQueue, inputFile, scopeRefs, tagsLeft, pc>>

InitField ==
    /\ Option = DefaultOption
    /\ fieldObjects = initFieldObjects
    /\ InitTagFile

\* the fields enableField is called for: two fixed ones, one that is
\* disabled at the start and one that is enabled
FieldArgs == {FIELD_NAME, FIELD_PATTERN, FIELD_ACCESS, FIELD_FILE_SCOPE}

NextField ==
    \E type \in FieldArgs, state \in BOOLEAN, warnIfFixedField \in BOOLEAN :
        enableField(type, state, warnIfFixedField)

SpecField == InitField /\ [][NextField]_vars

(***************************************************************************)
(* What the properties are stated with.                                    *)
(***************************************************************************)
\* the stream the records go to
Out == IF Option.etags THEN etags.fp ELSE fp

\* the records a writer's state holds
StreamOf(W) == IF Option.etags THEN W.etags.fp ELSE W.fp

\* the records (none or one) that the queue's entry i makes by itself
RecordOf(i, env) ==
    StreamOf(writeTagEntry(corkQueue.queue[i],
                           [Writer EXCEPT !.fp = <<>>, !.etags.fp = <<>>], env))

\* the records of the whole queue, by ascending index
QueuedRecords(env) ==
    Concat([i \in 1..(corkQueue.count - 1) |-> RecordOf(i, env)])

\* the indices of the entries of the queue that are no placeholders
Written == {i \in 1..(corkQueue.count - 1) : ~corkQueue.queue[i].placeholder}

\* a tag but for its pattern
SansPattern(tag) == [tag EXCEPT !.pattern = NULL]

(***************************************************************************)
(* C1: an uncork that takes the depth to 0 and returns appends to the      *)
(* output the records of the queue's entries by ascending index 1 ..       *)
(* count-1, which is the order makeTagEntry queued them in; every other    *)
(* step taken with the cork in appends nothing.                            *)
(***************************************************************************)
C1_FlushInQueueOrder ==
    [][(cork > 0 /\ pc' = "run") =>
          IF cork' = 0
          THEN \E env \in Environments : Out' = Out \o QueuedRecords(env)
          ELSE Out' = Out]_vars

\* three tags queued in one session and flushed to three records
C1_Witness ==
    /\ op = "uncorkTagFile" /\ cork = 0 /\ pc = "run"
    /\ scopeRefs = {1, 2, 3}
    /\ Len(fp) = 3 /\ fp[1] # fp[2] /\ fp[2] # fp[3]

(***************************************************************************)
(* C2: an uncorkTagFile that leaves the depth above 0 writes nothing and   *)
(* leaves the queue as it is, and so does a corkTagFile at a depth above   *)
(* 0; the uncork that takes the depth from 1 to 0 counts every entry of    *)
(* the queue that is no placeholder as written and empties the queue.      *)
(***************************************************************************)
C2_OnlyOutermostFlushes ==
    [][/\ (op' = "uncorkTagFile" /\ pc' = "run") =>
            IF cork > 1
            THEN /\ cork' = cork - 1
                 /\ UNCHANGED <<fp, etags, numTags, max, corkQueue>>
            ELSE /\ cork' = 0
                 /\ numTags'.added = numTags.added + Cardinality(Written)
                 /\ corkQueue'.count = 0
       /\ (op' = "corkTagFile" /\ cork > 0) =>
            /\ cork' = cork + 1
            /\ UNCHANGED <<fp, etags, numTags, max, corkQueue>>]_vars

\* a nested uncork has left a queue of two tags in place, nothing written
C2_Witness ==
    /\ op = "uncorkTagFile" /\ cork = 1 /\ pc = "run"
    /\ corkQueue.count = 3 /\ Out = <<>> /\ numTags.added = 0

(***************************************************************************)
(* C3: corkTagFile at depth 0 sets count to 1; makeTagEntry with the cork  *)
(* in returns, for a tag it accepts, the count before the call, which is   *)
(* 1 for the first and never 0, and getEntryInCorkQueue of that index      *)
(* yields the tag; every entry of the queue stays at its index with its    *)
(* content while the depth stays above 0, however the array grows.         *)
(***************************************************************************)
C3_StableIndices ==
    [][/\ (op' = "corkTagFile" /\ cork = 0) => corkQueue'.count = 1
       /\ (op' = "makeTagEntry" /\ cork > 0 /\ ~IsNullTag(arg') /\ pc' = "run") =>
            /\ ret' = corkQueue.count
            /\ ret' >= 1
            /\ corkQueue'.count = corkQueue.count + 1
            /\ \A k \in {corkQueue.count} :
                  /\ getEntryInCorkQueue(k)' = k
                  /\ SansPattern(corkQueue'.queue[k]) = SansPattern(arg')
       /\ (cork > 0 /\ cork' > 0 /\ pc' = "run") =>
            \A k \in 1..(corkQueue.count - 1) :
               /\ getEntryInCorkQueue(k)' = k
               /\ corkQueue'.queue[k] = corkQueue.queue[k]]_vars

\* the third tag of a session is queued, the array grown twice since the first
C3_Witness ==
    /\ op = "makeTagEntry" /\ ret = 3 /\ pc = "run"
    /\ corkQueue.length = 4 /\ corkQueue.count = 4
    /\ corkQueue.queue[1].name = N_Foo

\* the entry that the scopeIndex of the queue's entry j names, 0 if none
Parent(j) ==
    IF corkQueue.queue[j].scopeIndex \in 1..(corkQueue.count - 1)
    THEN corkQueue.queue[j].scopeIndex ELSE 0

RECURSIVE PathNames(_, _)
\* the names, as the name column shows them, of the entries that are no
\* placeholders on the parent chain of j, the outermost first; n bounds the walk
PathNames(j, n) ==
    IF j = 0 \/ n = 0 THEN <<>>
    ELSE PathNames(Parent(j), n - 1)
         \o (IF corkQueue.queue[j].placeholder THEN <<>>
             ELSE <<escapeName(corkQueue.queue[j], FIELD_NAME)>>)

RECURSIVE Dotted(_)
\* names joined with '.'
Dotted(names) ==
    IF names = <<>> THEN <<>>
    ELSE IF Len(names) = 1 THEN names[1]
    ELSE names[1] \o <<46>> \o Dotted(Tail(names))

\* the scope column of kind k of entry j and the name chain starting at entry c
ScopeColumn(k, c) ==
    <<9>> \o ScopeKey \o corkQueue.queue[k].kind.name \o <<58>>
    \o Dotted(PathNames(c, corkQueue.count))

EndsWith(rec, suffix) ==
    /\ Len(rec) >= Len(suffix)
    /\ SubSeq(rec, Len(rec) - Len(suffix) + 1, Len(rec)) = suffix

\* where the flush puts the record of the queue's entry i
Position(i) == Len(Out) + Cardinality({j \in Written : j <= i})

\* a flush that returns
Flushed == cork > 0 /\ cork' = 0 /\ pc' = "run"

\* the entry names its scope by index alone
ByIndex(e) ==
    e.scopeIndex # SCOPE_NIL /\ ~(e.scopeKind # NoKind /\ e.scopeName # NULL)

\* the record that the queue's entry i makes when it names no scope
BareRecord(i) ==
    StreamOf(writeTagEntry([corkQueue.queue[i] EXCEPT !.scopeIndex = SCOPE_NIL,
                                                      !.scopeKind = NoKind,
                                                      !.scopeName = NULL],
                           [Writer EXCEPT !.fp = <<>>, !.etags.fp = <<>>],
                           [fputsRet |-> 0, ferror |-> FALSE, nullRead |-> NULL]))[1]

\* "\tclass:Foo\n"
ClassFoo == <<9,99,108,97,115,115,58,70,111,111,10>>

(***************************************************************************)
(* C4: at a flush that returns, with the scope field on, the line of a tag *)
(* that names its scope by the index of an entry of the queue, and has no  *)
(* explicit scope, ends with the kind name of that entry, ':', and the     *)
(* names of the entries that are no placeholders on the parent chain from  *)
(* that entry, the outermost first, joined with '.'.                       *)
(***************************************************************************)
C4_ScopeFromChain ==
    [][(Flushed /\ isFieldEnabled(FIELD_SCOPE)) =>
          \A i \in Written :
             (ByIndex(corkQueue.queue[i]) /\ Parent(i) # 0) =>
                EndsWith(fp'[Position(i)],
                         ScopeColumn(Parent(i), Parent(i)) \o <<10>>)]_vars

\* Foo, b\ in Foo, and a tag in that b\, whose line ends "\tfunction:Foo.b\\\\\n"
C4_Witness ==
    /\ op = "uncorkTagFile" /\ cork = 0 /\ pc = "run"
    /\ Len(fp) = 3
    /\ EndsWith(fp[2], ClassFoo)
    /\ EndsWith(fp[3], <<9,102,117,110,99,116,105,111,110,58,70,111,111,46,
                         98,92,92,10>>)

(***************************************************************************)
(* C5 as stated: at a flush that returns, the line of every tag with       *)
(* scopeIndex # 0 carries a scope column, which makes it longer than the   *)
(* line the tag makes without a scope.                                     *)
(***************************************************************************)
C5_ScopeColumnAlways ==
    [][Flushed =>
          \A i \in Written :
             corkQueue.queue[i].scopeIndex # SCOPE_NIL =>
                Len(fp'[Position(i)]) > Len(BareRecord(i))]_vars

(***************************************************************************)
(* C5 amended: at a flush that returns, the line of a tag with             *)
(* scopeIndex # 0 carries a scope column when the scope field is on, and   *)
(* is the line the tag makes without a scope when the field is off; the    *)
(* column's name is empty when the tag names its scope by the index of an  *)
(* entry whose parent chain holds placeholders only.                       *)
(***************************************************************************)
C5_ScopeColumnWhenEnabled ==
    [][Flushed =>
          \A i \in Written :
             corkQueue.queue[i].scopeIndex # SCOPE_NIL =>
                IF isFieldEnabled(FIELD_SCOPE)
                THEN /\ Len(fp'[Position(i)]) > Len(BareRecord(i))
                     /\ (/\ ByIndex(corkQueue.queue[i])
                         /\ Parent(i) # 0
                         /\ PathNames(Parent(i), corkQueue.count) = <<>>)
                        => EndsWith(fp'[Position(i)], <<58, 10>>)
                ELSE fp'[Position(i)] = BareRecord(i)]_vars

\* Foo and a tag in Foo flushed with the scope field on
C5_Witness ==
    /\ op = "uncorkTagFile" /\ cork = 0 /\ pc = "run"
    /\ isFieldEnabled(FIELD_SCOPE)
    /\ scopeRefs = {1, 2} /\ tagsLeft = 1
    /\ Len(fp) = 2 /\ EndsWith(fp[2], ClassFoo)

(***************************************************************************)
(* C6: the entry at index i of the queue has scopeIndex 0 or an index j    *)
(* with 1 <= j < i.                                                        *)
(***************************************************************************)
C6_ScopeIndexEarlier ==
    \A i \in 1..(corkQueue.count - 1) :
       \/ corkQueue.queue[i].scopeIndex = SCOPE_NIL
       \/ (1 <= corkQueue.queue[i].scopeIndex /\ corkQueue.queue[i].scopeIndex < i)

\* the longest name among the queue's entries that are no placeholders, and m
LongestWritten(m) ==
    CHOOSE n \in {m} \cup {Len(corkQueue.queue[i].name) : i \in Written} :
       \A k \in {m} \cup {Len(corkQueue.queue[i].name) : i \in Written} : k <= n

(***************************************************************************)
(* C7: makeTagEntry of a placeholder writes nothing and leaves             *)
(* numTags.added and the maximum lengths as they are; with the cork out it *)
(* returns 0, with the cork in it takes the next index of the queue.  A    *)
(* flush that returns writes one line for each entry that is no            *)
(* placeholder and none else, and remembers no placeholder's name length.  *)
(* The line of a tag that names a placeholder as its scope ends with the   *)
(* placeholder's kind name, ':', and the name chain of the placeholder's   *)
(* parent.                                                                 *)
(***************************************************************************)
C7_PlaceholderSilent ==
    [][/\ (op' = "makeTagEntry" /\ arg'.placeholder /\ pc' = "run") =>
            /\ UNCHANGED <<fp, etags, numTags, max>>
            /\ IF cork = 0 THEN ret' = SCOPE_NIL /\ corkQueue' = corkQueue
               ELSE /\ ret' = corkQueue.count
                    /\ ret' >= 1
                    /\ corkQueue'.count = corkQueue.count + 1
                    /\ corkQueue'.queue[corkQueue.count].placeholder
       /\ Flushed =>
            /\ Len(Out') = Len(Out) + Cardinality(Written)
            /\ max'.tag = LongestWritten(max.tag)
            /\ isFieldEnabled(FIELD_SCOPE) =>
                 \A i \in Written :
                    (/\ ByIndex(corkQueue.queue[i])
                     /\ Parent(i) # 0
                     /\ corkQueue.queue[Parent(i)].placeholder) =>
                       EndsWith(fp'[Position(i)],
                                ScopeColumn(Parent(i), Parent(Parent(i)))
                                \o <<10>>)]_vars

\* Foo, a placeholder in Foo, and a tag in the placeholder: two lines, the
\* second one's scope struct:Foo, no name longer than Foo's remembered
C7_Witness ==
    /\ op = "uncorkTagFile" /\ cork = 0 /\ pc = "run"
    /\ scopeRefs = {1, 2, 3}
    /\ Len(fp) = 2 /\ numTags.added = 2 /\ max.tag = 3
    /\ EndsWith(fp[2], <<9,115,116,114,117,99,116,58,70,111,111,10>>)

(***************************************************************************)
(* C8: makeTagEntry of a tag that is no placeholder and has the empty      *)
(* name returns 0 and leaves the output, the queue, numTags.added and the  *)
(* maximum lengths as they are, at any cork depth; it warns exactly when   *)
(* the input language does not allow null tags.                            *)
(***************************************************************************)
C8_NullTagSkipped ==
    [][(op' = "makeTagEntry" /\ arg'.name = <<>> /\ ~arg'.placeholder) =>
          /\ ret' = SCOPE_NIL
          /\ UNCHANGED <<fp, etags, numTags, max, corkQueue, cork, pc>>
          /\ warned' = ~doesInputLanguageAllowNullTag(arg'.language)]_vars

\* a null tag skipped with a warning, the cork in at depth 2
C8_Witness ==
    /\ op = "makeTagEntry" /\ arg.name = <<>> /\ ~arg.placeholder
    /\ warned /\ ret = SCOPE_NIL /\ cork = 2 /\ corkQueue.count = 2

\* the writer leaves the tag out: a file entry in the cross-reference
\* output without a format of the user's, a tag whose line cannot be read in the
\* etags output
LeftOut(tag) ==
    \/ Option.xref /\ Option.customXfmt = NoFormat /\ tag.isFileEntry
    \/ /\ ~Option.xref /\ Option.etags /\ ~tag.isFileEntry
       /\ readLineFromBypassAnyway(tag) = NULL

(***************************************************************************)
(* C9 as stated: with the cork out, a makeTagEntry that accepts a tag      *)
(* that is no placeholder, and returns, appends one record to the output,  *)
(* returns 0 and adds 1 to numTags.added.                                  *)
(***************************************************************************)
C9_UncorkedAppendsOne ==
    [][(/\ op' = "makeTagEntry" /\ cork = 0 /\ pc' = "run"
        /\ ~IsNullTag(arg') /\ ~arg'.placeholder) =>
          /\ Len(Out') = Len(Out) + 1
          /\ SubSeq(Out', 1, Len(Out)) = Out
          /\ ret' = SCOPE_NIL
          /\ numTags'.added = numTags.added + 1]_vars

(***************************************************************************)
(* C9 amended: with the cork out, a makeTagEntry that accepts a tag that   *)
(* is no placeholder, and returns, returns 0, adds 1 to numTags.added and  *)
(* appends one record, ending in a newline, after the records written      *)
(* before - but no record for a file entry in the cross-reference output   *)
(* without a format of the user's, nor for a tag whose line cannot be read *)
(* in the etags output.                                                    *)
(***************************************************************************)
C9_UncorkedAppendsAtMostOne ==
    [][(/\ op' = "makeTagEntry" /\ cork = 0 /\ pc' = "run"
        /\ ~IsNullTag(arg') /\ ~arg'.placeholder) =>
          /\ IF LeftOut(arg') THEN Out' = Out
             ELSE /\ Len(Out') = Len(Out) + 1
                  /\ SubSeq(Out', 1, Len(Out)) = Out
                  /\ EndsWith(Out'[Len(Out')], <<10>>)
          /\ ret' = SCOPE_NIL
          /\ numTags'.added = numTags.added + 1]_vars

\* a file entry counted and not written in the cross-reference output
C9_Witness ==
    /\ op = "makeTagEntry" /\ cork = 0 /\ pc = "run"
    /\ Option.xref /\ arg.isFileEntry
    /\ numTags.added = 2 /\ Len(fp) = 1

\* the fields that are fixed
FixedFields == {FIELD_NAME, FIELD_INPUT_FILE, FIELD_PATTERN}

(***************************************************************************)
(* C10: the fixed fields are name, input and pattern, and each of them is  *)
(* enabled after every enableField; an enableField of a fixed field        *)
(* returns the field's state and leaves the registry as it is.             *)
(***************************************************************************)
C10_FixedFieldsStayEnabled ==
    [][op' = "enableField" =>
          /\ \A t \in 0..(fieldObjectUsed - 1) :
                /\ isFieldFixed(t)' = (t \in FixedFields)
                /\ (t \in FixedFields) => isFieldEnabled(t)'
          /\ (arg'[1] \in FixedFields) =>
                /\ ret' = isFieldEnabled(arg'[1])
                /\ ret' = TRUE
                /\ fieldObjects' = fieldObjects]_vars

\* the pattern field asked to be disabled: a warning, and it is still enabled
C10_Witness ==
    /\ op = "enableField" /\ arg = <<FIELD_PATTERN, FALSE, TRUE>>
    /\ warned /\ ret = TRUE
    /\ isFieldEnabled(FIELD_PATTERN)
    /\ ~isFieldEnabled(FIELD_ACCESS)


\* the field f was enabled, disabled and enabled again by the three latest calls
Toggled(f) ==
    /\ Len(fieldLog) = 3
    /\ \A k \in 1..3 : fieldLog[k].type = f
    /\ fieldLog[1].state /\ ~fieldLog[2].state /\ fieldLog[3].state

(***************************************************************************)
(* C11 as stated: after enableField (f, true), enableField (f, false),     *)
(* enableField (f, true), isFieldEnabled (f) is the value the field had    *)
(* before the three calls.                                                 *)
(***************************************************************************)
C11_ToggleRestoresInitial ==
    \A f \in 0..(fieldObjectUsed - 1) :
       Toggled(f) => isFieldEnabled(f) = fieldLog[1].old

(***************************************************************************)
(* C11 amended: after the three calls isFieldEnabled (f) is true, which is *)
(* the value the field had before them only when it was enabled then; and  *)
(* a fixed field that the latest call disabled is still enabled.           *)
(***************************************************************************)
C11_ToggleLeavesEnabled ==
    \A f \in 0..(fieldObjectUsed - 1) :
       /\ Toggled(f) => isFieldEnabled(f)
       /\ (Toggled(f) /\ fieldLog[1].old) => isFieldEnabled(f) = fieldLog[1].old
       /\ (/\ fieldLog # <<>>
           /\ fieldLog[Len(fieldLog)].type = f
           /\ ~fieldLog[Len(fieldLog)].state
           /\ isFieldFixed(f)) => isFieldEnabled(f)

\* the three calls made on "access", a field that was disabled before them
C11_Witness ==
    /\ Toggled(FIELD_ACCESS)
    /\ ~fieldLog[1].old
    /\ isFieldEnabled(FIELD_ACCESS)

(***************************************************************************)
(* C12: enableField (f, s, w) of a field f that is not fixed returns what  *)
(* isFieldEnabled (f) was before the call and leaves it s; every other     *)
(* field keeps its enabled state, its letter and its name, and every field *)
(* its id (its position in the registry).                                  *)
(***************************************************************************)
C12_EnableFieldFrame ==
    [][(op' = "enableField" /\ ~isFieldFixed(arg'[1])) =>
          /\ ret' = isFieldEnabled(arg'[1])
          /\ fieldObjects'[arg'[1] + 1].enabled = arg'[2]
          /\ Len(fieldObjects') = Len(fieldObjects)
          /\ \A g \in 0..(fieldObjectUsed - 1) :
                g # arg'[1] => fieldObjects'[g + 1] = fieldObjects[g + 1]
          /\ fieldObjects'[arg'[1] + 1] =
                [fieldObjects[arg'[1] + 1] EXCEPT !.enabled = arg'[2]]]_vars

\* "file", an enabled field, disabled by a call that returned true
C12_Witness ==
    /\ op = "enableField"
    /\ arg[1] = FIELD_FILE_SCOPE /\ ~arg[2]
    /\ ret = TRUE
    /\ ~isFieldEnabled(FIELD_FILE_SCOPE)
    /\ isFieldEnabled(FIELD_NAME)


(***************************************************************************)
(* The registry's growth and its lookups.  A language is its langType, a   *)
(* natural number; the parsers' tables of fields are parse.c's.            *)
(***************************************************************************)
\* "x"
N_x == <<120>>

\* the last language
MaxLang == 1

Languages == 0..MaxLang

\* the fields a parser defines when it is initialized
ParserFields(language) ==
    IF language = 0 THEN << FieldDef(NUL_FIELD_LETTER, S_end, FALSE) >>
    ELSE << FieldDef(NUL_FIELD_LETTER, N_x, TRUE),
            FieldDef(NUL_FIELD_LETTER, S_end, FALSE) >>

\* the registry as a value: [objects, allocated]
Registry == [objects |-> fieldObjects, allocated |-> fieldObjectAllocated]

countFields == fieldObjectUsed

nextSiblingField(type) == fieldObjects[type + 1].sibling

\* the greatest element of a set of numbers that is not empty
Greatest(S) == CHOOSE i \in S : \A j \in S : j <= i

\* the older field the loop of updateSiblingField stops at, S the fields
\* below type that have the name
SiblingLinked(objects, type, S) ==
    IF S = {} THEN objects
    ELSE [objects EXCEPT ![Greatest(S) + 1].sibling = type]

updateSiblingField(objects, type, name) ==
    SiblingLinked(objects, type,
                  {i \in 0..(type - 1) :
                      objects[i + 1].name # NULL /\ objects[i + 1].name = name})

\* a faulty definition: the new field takes the place of the last one
defineFieldInPlace(R, def, language) ==
    [objects |-> [R.objects EXCEPT ![Len(R.objects)] =
                     FieldObject(FieldDef(NUL_FIELD_LETTER, def.name, def.enabled),
                                 FALSE, CTAGS_FIELD_PREFIX \o def.name, language)],
     allocated |-> R.allocated,
     ftype |-> Len(R.objects) - 1]

\* a faulty definition: no sibling is linked
defineFieldUnlinked(R, def, language) ==
    [objects |-> Append(R.objects,
                     FieldObject(FieldDef(NUL_FIELD_LETTER, def.name, def.enabled),
                                 FALSE, CTAGS_FIELD_PREFIX \o def.name, language)),
     allocated |-> IF Len(R.objects) = R.allocated
                   THEN R.allocated * 2 ELSE R.allocated,
     ftype |-> Len(R.objects)]

\* defineField on the registry R: [objects, allocated, ftype], the registry
\* afterwards and the field type returned
defineFieldIn(R, def, language) ==
    [objects |-> updateSiblingField(
                     Append(R.objects,
                            FieldObject(FieldDef(NUL_FIELD_LETTER, def.name, def.enabled),
                                        FALSE, CTAGS_FIELD_PREFIX \o def.name,
                                        language)),
                     Len(R.objects), def.name),
     allocated |-> IF Len(R.objects) = R.allocated
                   THEN R.allocated * 2 ELSE R.allocated,
     ftype |-> Len(R.objects)]

RECURSIVE InstalledFields(_, _, _)
\* the fields of a parser's table defined one after the other
InstalledFields(R, defs, language) ==
    IF defs = <<>> THEN R
    ELSE InstalledFields(defineFieldIn(R, Head(defs), language), Tail(defs), language)

RECURSIVE initializeParsersFrom(_, _, _)
\* the parsers of the languages l..MaxLang initialized that were not (done)
initializeParsersFrom(R, done, l) ==
    IF l > MaxLang THEN R
    ELSE initializeParsersFrom(
             IF l \in done THEN R ELSE InstalledFields(R, ParserFields(l), l),
             done, l + 1)

\* initializeParser: the registry afterwards
initializeParser(R, done, language) ==
    IF language = LANG_AUTO THEN initializeParsersFrom(R, done, 0)
    ELSE IF language \in done THEN R
    ELSE InstalledFields(R, ParserFields(language), language)

\* the first field type at which the loop of a lookup returns, S the field
\* types that match
FirstOf(S) ==
    IF S = {} THEN FIELD_UNKNOWN ELSE CHOOSE i \in S : \A j \in S : i <= j

\* a faulty lookup: the last field that carries the letter
LastForOption(objects, letter) ==
    IF {i \in 0..(Len(objects) - 1) : objects[i + 1].letter = letter} = {}
    THEN FIELD_UNKNOWN
    ELSE Greatest({i \in 0..(Len(objects) - 1) : objects[i + 1].letter = letter})

\* the loop of getFieldTypeForOption
ForOption(objects, letter) ==
    FirstOf({i \in 0..(Len(objects) - 1) : objects[i + 1].letter = letter})

\* the loop of getFieldTypeForNameAndLanguage
ForNameAndLanguage(objects, fieldName, language) ==
    FirstOf({i \in 0..(Len(objects) - 1) :
                /\ objects[i + 1].name # NULL
                /\ objects[i + 1].name = fieldName
                /\ (language = LANG_AUTO \/ objects[i + 1].language = language)})

\* the registry R stored back
SetRegistry(R) ==
    /\ fieldObjects' = R.objects
    /\ fieldObjectAllocated' = R.allocated

defineField(def, language) ==
    /\ pc = "run"
    /\ fieldObjectUsed < Len(initFieldObjects) + MaxDefined
    /\ \E R \in {defineFieldIn(Registry, def, language)} :
          SetRegistry(R) /\ ret' = R.ftype
    /\ op' = "defineField"
    /\ arg' = <<def.name, language>>
    /\ warned' = FALSE
    /\ UNCHANGED <<fileVars, Option, fieldLog, initialized, parserInitialized, writerVars,
                   cork, corkQueue, inputFile, scopeRefs, tagsLeft, pc>>

getFieldTypeForOption(letter) ==
    /\ pc = "run"
    /\ ret' = ForOption(fieldObjects, letter)
    /\ op' = "getFieldTypeForOption"
    /\ arg' = <<letter>>
    /\ warned' = FALSE
    /\ UNCHANGED <<fileVars, Option, fieldVars, writerVars, cork, corkQueue, inputFile,
                   scopeRefs, tagsLeft, pc>>

\* the end of getFieldTypeForNameAndLanguage, R the registry its calls of
\* initializeParser left
LookedUp(R, fieldName, language) ==
    /\ SetRegistry(R)
    /\ ret' = ForNameAndLanguage(R.objects, fieldName, language)

getFieldTypeForNameAndLanguage(fieldName, language) ==
    /\ pc = "run"
    /\ IF fieldName = NULL
       THEN /\ ret' = FIELD_UNKNOWN
            /\ UNCHANGED <<fieldObjects, fieldObjectAllocated, initialized,
                           parserInitialized>>
       ELSE IF language = LANG_AUTO /\ ~initialized
       THEN /\ initialized' = TRUE
            /\ parserInitialized' = Languages
            /\ LookedUp(initializeParser(Registry, parserInitialized, LANG_AUTO),
                        fieldName, language)
       ELSE IF language # LANG_IGNORE /\ ~initialized
       THEN /\ initialized' = initialized
            /\ parserInitialized' = parserInitialized \cup {language}
            /\ LookedUp(initializeParser(Registry, parserInitialized, language),
                        fieldName, language)
       ELSE /\ UNCHANGED <<initialized, parserInitialized>>
            /\ LookedUp(Registry, fieldName, language)
    /\ op' = "getFieldTypeForNameAndLanguage"
    /\ arg' = <<fieldName, language>>
    /\ warned' = FALSE
    /\ UNCHANGED <<fileVars, Option, fieldLog, writerVars, cork, corkQueue, inputFile,
                   scopeRefs, tagsLeft, pc>>

\* the names looked up and defined: "end", "x", "kind", and "role"
FieldNames == {S_end, N_x, S_kind, S_role}

\* the definitions passed to defineField
NewFields ==
    {FieldDef(NUL_FIELD_LETTER, S_end, FALSE), FieldDef(NUL_FIELD_LETTER, N_x, TRUE)}

\* the letters looked up: none, 'N', 'z', '!'
OptionLetters == {NUL_FIELD_LETTER, 78, 122, 33}

NextRegistry ==
    \/ \E def \in NewFields, language \in Languages : defineField(def, language)
    \/ \E letter \in OptionLetters : getFieldTypeForOption(letter)
    \/ \E fieldName \in FieldNames \cup {NULL},
          language \in Languages \cup {LANG_AUTO, LANG_IGNORE} :
          getFieldTypeForNameAndLanguage(fieldName, language)

SpecRegistry == InitField /\ [][NextRegistry]_vars


\* the field types of the registry objects whose letter is c
Carrying(objects, c) ==
    {i \in 0..(Len(objects) - 1) : objects[i + 1].letter = c}

\* the field types of the registry objects that have the name n and a
\* language that matches lang (every language matches LANG_AUTO)
Named(objects, n, lang) ==
    {i \in 0..(Len(objects) - 1) :
        /\ objects[i + 1].name # NULL
        /\ objects[i + 1].name = n
        /\ (lang = LANG_AUTO \/ objects[i + 1].language = lang)}

\* r is FIELD_UNKNOWN when S is empty and the least element of S otherwise
LowestOrUnknown(r, S) ==
    IF S = {} THEN r = FIELD_UNKNOWN ELSE r \in S /\ \A j \in S : r <= j

\* a registry object but for its sibling link
SansSibling(o) == [o EXCEPT !.sibling = FIELD_UNKNOWN]

\* the objects of the registry before the step are, but for their sibling
\* links, the first objects of the registry after it
FieldsKept ==
    /\ Len(fieldObjects') >= Len(fieldObjects)
    /\ \A i \in 1..Len(fieldObjects) :
          SansSibling(fieldObjects'[i]) = SansSibling(fieldObjects[i])

(***************************************************************************)
(* C13 as stated: a lookup by letter or by name returns the lowest field   *)
(* type among the registered fields that match, FIELD_UNKNOWN when there   *)
(* is none or the name is NULL, and leaves the registry as it is.          *)
(***************************************************************************)
C13_LookupsReadOnly ==
    [][/\ (op' = "getFieldTypeForOption") =>
             /\ LowestOrUnknown(ret', Carrying(fieldObjects, arg'[1]))
             /\ fieldObjects' = fieldObjects
       /\ (op' = "getFieldTypeForNameAndLanguage") =>
             /\ IF arg'[1] = NULL THEN ret' = FIELD_UNKNOWN
                ELSE LowestOrUnknown(ret', Named(fieldObjects, arg'[1], arg'[2]))
             /\ fieldObjects' = fieldObjects]_vars

(***************************************************************************)
(* C13 amended: the lookup by letter is as stated.  The lookup by name of  *)
(* a NULL name returns FIELD_UNKNOWN and changes nothing; of another name  *)
(* it returns the lowest match among the fields registered when it         *)
(* returns: asked for a language other than LANG_IGNORE before any lookup  *)
(* with LANG_AUTO, it first initializes the parser (with LANG_AUTO, every  *)
(* parser), which registers that parser's fields; the fields registered    *)
(* before keep their id, letter, name, language and enabled state, and     *)
(* the registry is left as it is in every other case.                      *)
(***************************************************************************)
C13_LookupsAfterParserInit ==
    [][/\ (op' = "getFieldTypeForOption") =>
             /\ LowestOrUnknown(ret', Carrying(fieldObjects, arg'[1]))
             /\ fieldObjects' = fieldObjects
       /\ (op' = "getFieldTypeForNameAndLanguage") =>
             /\ IF arg'[1] = NULL THEN ret' = FIELD_UNKNOWN
                ELSE LowestOrUnknown(ret', Named(fieldObjects', arg'[1], arg'[2]))
             /\ FieldsKept
             /\ (arg'[1] = NULL \/ arg'[2] = LANG_IGNORE \/ initialized)
                   => fieldObjects' = fieldObjects]_vars

\* "end" looked up for language 1 once a field "end" of language 0 is
\* registered: the answer is a field of language 1, not the lowest "end"
C13_Witness ==
    /\ op = "getFieldTypeForNameAndLanguage"
    /\ arg = <<S_end, 1>>
    /\ ret > FIELD_END
    /\ Cardinality(Named(fieldObjects, S_end, LANG_AUTO)) >= 3
    /\ Named(fieldObjects, S_end, LANG_IGNORE) = {FIELD_END}


\* the field types of the fields that have the name of field f
SameName(f) == Named(fieldObjects, fieldObjects[f + 1].name, LANG_AUTO)

(***************************************************************************)
(* C14: the sibling of a field is FIELD_UNKNOWN or a later field of the    *)
(* same name; and the fields of one name are one chain from the oldest to  *)
(* the newest: the sibling of each is the next field of that name, and the *)
(* sibling of the newest is FIELD_UNKNOWN.                                 *)
(***************************************************************************)
C14_SiblingChain ==
    \A f \in 0..(countFields - 1) :
       /\ nextSiblingField(f) # FIELD_UNKNOWN =>
             /\ nextSiblingField(f) > f
             /\ nextSiblingField(f) < countFields
             /\ fieldObjects[nextSiblingField(f) + 1].name = fieldObjects[f + 1].name
       /\ fieldObjects[f + 1].name # NULL =>
             LowestOrUnknown(nextSiblingField(f), {g \in SameName(f) : g > f})

\* three fields "end": the built-in one, one defined later, one after that
C14_Witness ==
    /\ countFields >= FIELD_END + 3
    /\ nextSiblingField(FIELD_END) = FIELD_END + 1
    /\ nextSiblingField(FIELD_END + 1) = FIELD_END + 2
    /\ nextSiblingField(FIELD_END + 2) = FIELD_UNKNOWN
    /\ fieldObjects[FIELD_END + 3].name = S_end

\* the built-in fields, in the order of their ids
BuiltinFields ==
    fieldDefinitionsFixed \o fieldDefinitionsExuberant \o fieldDefinitionsUniversal

(***************************************************************************)
(* C15: the built-in fields have the ids 0..n-1 in the order of the fixed, *)
(* the exuberant and the universal table, and no more fields are used than *)
(* are allocated; defineField returns countFields () as it was before the  *)
(* call, makes it one more, and leaves the id, letter, name, language and  *)
(* enabled state of every field registered before as they were.            *)
(***************************************************************************)
C15_IdsInOrderOfDefinition ==
    /\ [](/\ fieldObjectUsed <= fieldObjectAllocated
          /\ \A i \in 1..Len(BuiltinFields) :
                /\ fieldObjects[i].letter = BuiltinFields[i].letter
                /\ fieldObjects[i].name = BuiltinFields[i].name
                /\ fieldObjects[i].language = LANG_IGNORE
                /\ fieldObjects[i].fixed = (i <= Len(fieldDefinitionsFixed)))
    /\ [][(op' = "defineField") =>
             /\ ret' = countFields
             /\ countFields' = countFields + 1
             /\ fieldObjects'[ret' + 1].name = arg'[1]
             /\ fieldObjects'[ret' + 1].language = arg'[2]
             /\ FieldsKept]_vars

\* the first field defined after the built-in ones: the array was full and
\* has been grown to twice its size
C15_Witness ==
    /\ op = "defineField"
    /\ ret = Len(BuiltinFields)
    /\ countFields = Len(BuiltinFields) + 1
    /\ fieldObjectAllocated = 2 * Len(BuiltinFields)
    /\ fieldObjects[FIELD_SCOPE + 1].letter = 115


(***************************************************************************)
(* The pattern builder called by itself (makePatternString), between       *)
(* changes of the input file and of the options.  Opening an input file    *)
(* is read.c's and setting an option is options.c's.                       *)
(***************************************************************************)
\* the characters of the input lines: backslash, '/', '?', '$' and CR
LineChars == {92, 47, 63, 36, 13}

RECURSIVE Bodies(_)
\* the strings of at most n of these characters
Bodies(n) ==
    IF n = 0 THEN {<<>>}
    ELSE Bodies(n - 1) \cup {Append(b, c) : b \in Bodies(n - 1), c \in LineChars}

\* the lines the reader hands out: with a newline at the end, or the last
\* line of a file that has none
InputLines ==
    (Bodies(MaxLineLen) \cup {Append(b, 10) : b \in Bodies(MaxLineLen)}) \ {<<>>}

\* the default of Option.patternLengthLimit
DefaultPatternLengthLimit == DefaultOption.patternLengthLimit

PatternLimits == (1..MaxLimit) \cup {DefaultPatternLengthLimit}

\* "/?\n" and "$\n"
OtherLines == << <<47,63,10>>, <<36,10>> >>

\* the tags whose pattern is asked for: a "?" on the first or second line
PatternTags ==
    {[NewTag(<<63>>, pos, FunctionKind) EXCEPT !.truncateLine = t] :
        pos \in 1..2, t \in BOOLEAN}

\* the end of makePatternString, built what makePatternStringCommon did
PatternMade(built) ==
    /\ ret' = built.out
    /\ patternCache' = built.cache
    /\ pc' = IF built.fatal THEN "fatal" ELSE pc

\* a call of makePatternString (tag)
makePatternStringOf(tag) ==
    /\ pc = "run"
    /\ PatternMade(makePatternString(tag, patternCache))
    /\ op' = "makePatternString"
    /\ arg' = tag
    /\ warned' = FALSE
    /\ UNCHANGED <<fileVars, Option, fieldVars, fp, etags, numTags, max, cork, corkQueue,
                   inputFile, scopeRefs, tagsLeft>>

\* a new input file opened: the pattern cache is no longer valid
openInputFile(lines) ==
    /\ pc = "run"
    /\ inputFile' = lines
    /\ patternCache' = [patternCache EXCEPT !.valid = FALSE]
    /\ op' = "openInputFile"
    /\ arg' = <<>>
    /\ ret' = 0
    /\ warned' = FALSE
    /\ UNCHANGED <<fileVars, Option, fieldVars, fp, etags, numTags, max, cork, corkQueue,
                   scopeRefs, tagsLeft, pc>>

\* the options of the pattern set: the pattern cache is no longer valid
setPatternOptions(backward, patternLengthLimit) ==
    /\ pc = "run"
    /\ Option' = [Option EXCEPT !.backward = backward,
                                !.patternLengthLimit = patternLengthLimit]
    /\ patternCache' = [patternCache EXCEPT !.valid = FALSE]
    /\ op' = "setPatternOptions"
    /\ arg' = <<>>
    /\ ret' = 0
    /\ warned' = FALSE
    /\ UNCHANGED <<fileVars, fieldVars, fp, etags, numTags, max, cork, corkQueue,
                   inputFile, scopeRefs, tagsLeft, pc>>

InitPattern ==
    /\ \E line \in InputLines : inputFile = <<line>>
    /\ \E backward \in BOOLEAN, limit \in PatternLimits :
          Option = [DefaultOption EXCEPT !.backward = backward,
                                         !.patternLengthLimit = limit]
    /\ fieldObjects = initFieldObjects
    /\ InitOutput

NextPattern ==
    \/ \E tag \in PatternTags : makePatternStringOf(tag)
    \/ \E lines \in {SourceLines, OtherLines} : openInputFile(lines)
    \/ \E backward \in BOOLEAN, limit \in {1, DefaultPatternLengthLimit} :
          setPatternOptions(backward, limit)

SpecPattern == InitPattern /\ [][NextPattern]_vars


(***************************************************************************)
(* The pattern of a source line, as the documentation describes it.        *)
(***************************************************************************)
\* the number of characters of line before its first CR or LF
ContentLength(line) ==
    CHOOSE n \in 0..Len(line) :
        /\ \A j \in 1..n : line[j] \notin {10, 13}
        /\ n < Len(line) => line[n + 1] \in {10, 13}

\* the delimiter of the search direction in force
ActiveDelimiter == IF Option.backward THEN 63 ELSE 47

\* character n of line gets a backslash in front
NeedsBackslash(line, n) ==
    \/ line[n] = 92
    \/ line[n] = ActiveDelimiter
    \/ line[n] = 36 /\ n < Len(line) /\ line[n + 1] \in {10, 13}

RECURSIVE EscapedPrefix(_, _)
\* the first n characters of line with the backslashes inserted
EscapedPrefix(line, n) ==
    IF n = 0 THEN <<>>
    ELSE EscapedPrefix(line, n - 1) \o
         (IF NeedsBackslash(line, n) THEN <<92>> ELSE <<>>) \o <<line[n]>>

EscapedContent(line) == EscapedPrefix(line, ContentLength(line))

\* delimiter, '^', escaped content, '$' after a newline-ended line, delimiter
DescribedPattern(line) ==
    <<ActiveDelimiter, 94>> \o EscapedContent(line) \o
    (IF line[Len(line)] = 10 THEN <<36>> ELSE <<>>) \o <<ActiveDelimiter>>

\* this step builds the pattern of a whole line, without the cache
BuildsPattern ==
    /\ op' = "makePatternString"
    /\ pc' = "run"
    /\ ~arg'.truncateLine
    /\ ~CacheHit(arg', patternCache)

\* the line this step builds the pattern of
BuiltLine == inputFile[arg'.filePosition]

\* C16 as stated: makePatternString on a line shorter than
\* Option.patternLengthLimit returns the described pattern of the line:
\* delimiter, '^', the escaped content, '$' if the line ended in a newline,
\* delimiter.
C16_PatternOfShorterLine ==
    [][BuildsPattern /\ Len(BuiltLine) < Option.patternLengthLimit
         => ret' = DescribedPattern(BuiltLine)]_vars

\* C16: makePatternString on a line whose escaped content is no longer than
\* Option.patternLengthLimit returns the described pattern of the line:
\* delimiter, '^', the content up to the first CR or LF with a backslash
\* before each backslash, each active delimiter and a '$' right before CR or
\* LF, then '$' if the line ended in a newline, then the delimiter.
C16_PatternOfFittingLine ==
    [][BuildsPattern /\ Len(EscapedContent(BuiltLine)) <= Option.patternLengthLimit
         => ret' = DescribedPattern(BuiltLine)]_vars

\* the pattern of "/$" and a newline built forward with limit 4: /^\/\$$/
C16_Witness ==
    /\ op = "makePatternString"
    /\ pc = "run"
    /\ ~arg.truncateLine
    /\ ~Option.backward
    /\ Option.patternLengthLimit = 4
    /\ arg.filePosition = 1
    /\ inputFile = << <<47, 36, 10>> >>
    /\ ret = <<47, 94, 92, 47, 92, 36, 36, 47>>


\* the characters appendInputLine writes for the line of this step, which
\* the pattern has between its '^' and its '$' or closing delimiter
EmittedContent == appendInputLine(BuiltLine).text

\* C17: makePatternString writes at most Option.patternLengthLimit
\* characters between the '^' and the closing delimiter, escape backslashes
\* counted; when the escaped content of the line is longer than the limit,
\* the pattern is the delimiter, '^', the first patternLengthLimit
\* characters of the escaped content and the delimiter, with no '$'.
C17_LimitBoundsPattern ==
    [][BuildsPattern =>
         /\ Len(EmittedContent) <= Option.patternLengthLimit
         /\ Len(EscapedContent(BuiltLine)) > Option.patternLengthLimit =>
               ret' = <<ActiveDelimiter, 94>> \o
                      SubSeq(EscapedContent(BuiltLine), 1, Option.patternLengthLimit) \o
                      <<ActiveDelimiter>>]_vars


\* this step builds the pattern of a line that ends in a newline and whose
\* escaped content is exactly Option.patternLengthLimit characters long
BuildsPatternAtLimit ==
    /\ BuildsPattern
    /\ BuiltLine[Len(BuiltLine)] = 10
    /\ Len(EscapedContent(BuiltLine)) = Option.patternLengthLimit

\* C18 as stated: the pattern of a newline-terminated line whose escaped
\* content is exactly patternLengthLimit long has no '$' anchor: it is the
\* delimiter, '^', the escaped content and the delimiter.
C18_AnchorOmittedAtLimit ==
    [][BuildsPatternAtLimit =>
         ret' = <<ActiveDelimiter, 94>> \o EscapedContent(BuiltLine) \o
                <<ActiveDelimiter>>]_vars

\* C18: the pattern of a newline-terminated line whose escaped content is
\* exactly patternLengthLimit long keeps the '$' anchor: it is the
\* delimiter, '^', the escaped content, '$' and the delimiter.
C18_AnchorKeptAtLimit ==
    [][BuildsPatternAtLimit =>
         ret' = <<ActiveDelimiter, 94>> \o EscapedContent(BuiltLine) \o
                <<36, ActiveDelimiter>>]_vars

\* the pattern of "?" and a newline built backward with limit 2: ?^\?$?
C18_Witness ==
    /\ op = "makePatternString"
    /\ pc = "run"
    /\ ~arg.truncateLine
    /\ Option.backward
    /\ Option.patternLengthLimit = 2
    /\ arg.filePosition = 1
    /\ inputFile = << <<63, 10>> >>
    /\ ret = <<63, 94, 92, 63, 36, 63>>


\* the pattern makePatternStringCommon builds for tag when the cache is not
\* valid
FreshPattern(tag) ==
    makePatternString(tag, [patternCache EXCEPT !.valid = FALSE]).out

\* a valid cache holds the pattern of the line at its position, as the
\* input file and the options now are
CacheCoherent ==
    patternCache.valid =>
        patternCache.pattern =
            FreshPattern(NewTag(<<63>>, patternCache.location, FunctionKind))

\* this step of makePatternString returns the cached pattern
ReturnsCached ==
    /\ op' = "makePatternString"
    /\ pc' = "run"
    /\ CacheHit(arg', patternCache)

\* C19: between builds, changes of the input file, of Option.backward and
\* of Option.patternLengthLimit, a valid pattern cache holds the pattern a
\* fresh build gives for its position, and a pattern returned from the
\* cache (truncateLine false, the tag's file position the cached one) is
\* the pattern a fresh build gives for the tag.
C19_CacheTransparent ==
    /\ []CacheCoherent
    /\ [][ReturnsCached => ret' = FreshPattern(arg')]_vars

\* the cache valid again after the input file and the options were changed:
\* it holds ?^/\?$? for the first line, "/?", of the second file
C19_Witness ==
    /\ op = "makePatternString"
    /\ pc = "run"
    /\ inputFile = OtherLines
    /\ Option.backward
    /\ Option.patternLengthLimit = DefaultPatternLengthLimit
    /\ arg.truncateLine
    /\ arg.filePosition = 1
    /\ patternCache.valid
    /\ patternCache.location = 1
    /\ patternCache.pattern = <<63, 94, 47, 92, 63, 36, 63>>


(***************************************************************************)
(* The ctags writer by itself, in both tag file formats, with the          *)
(* extension fields enabled and disabled by the command line and tags      *)
(* that carry them.                                                        *)
(***************************************************************************)
\* the fields that addExtensionFields tests
ExtensionTypes ==
    {FIELD_KIND_LONG, FIELD_KIND, FIELD_KIND_KEY, FIELD_LINE_NUMBER,
     FIELD_LANGUAGE, FIELD_SCOPE, FIELD_SCOPE_KEY, FIELD_TYPE_REF,
     FIELD_FILE_SCOPE, FIELD_INHERITANCE, FIELD_ACCESS, FIELD_IMPLEMENTATION,
     FIELD_SIGNATURE, FIELD_ROLE}

\* the registry with, of these fields, exactly those of enabled switched on
WithEnabled(enabled) ==
    [i \in 1..Len(initFieldObjects) |->
        IF (i - 1) \in ExtensionTypes
        THEN [initFieldObjects[i] EXCEPT !.enabled = ((i - 1) \in enabled)]
        ELSE initFieldObjects[i]]

\* what the command line leaves enabled: the defaults, none, one, all but
\* one, or all of these fields
EnabledSets ==
    {{t \in ExtensionTypes : initFieldObjects[t + 1].enabled}, {}, ExtensionTypes}
    \cup {{t} : t \in ExtensionTypes}
    \cup {ExtensionTypes \ {t} : t \in ExtensionTypes}

\* a kind with a role "r"
MacroKind == [letter |-> 100, name |-> <<109,97,99,114,111>>, roles |-> << <<114>> >>]

\* a kind that has a letter and no name
LetterKind == [letter |-> 118, name |-> NULL, roles |-> <<>>]

\* a tag with every extension field set, one with some, one with none
ExtensionTags ==
    {[NewTag(N_b, 2, MacroKind) EXCEPT
          !.scopeKind = ClassKind, !.scopeName = N_Foo,
          !.typeRef = << <<115>>, <<120>> >>, !.isFileScope = TRUE,
          !.inheritance = <<66>>, !.access = <<112>>,
          !.implementation = <<118>>, !.signature = <<40,41>>,
          !.roleIndex = 0],
     [NewTag(N_Foo, 1, FunctionKind) EXCEPT
          !.language = NULL, !.access = <<112>>, !.signature = <<40,41>>],
     [NewTag(N_Foo, 1, LetterKind) EXCEPT
          !.language = NULL, !.isFileScope = TRUE, !.lineNumberEntry = TRUE],
     NewTag(N_Foo, 1, ClassKind)}

InitExtension ==
    /\ \E format \in 1..2 : Option = [DefaultOption EXCEPT !.tagFileFormat = format]
    /\ \E enabled \in EnabledSets : fieldObjects = WithEnabled(enabled)
    /\ InitTagFile

NextExtension == \E tag \in ExtensionTags : makeTagEntry(tag)

SpecExtension == InitExtension /\ [][NextExtension]_vars


(***************************************************************************)
(* A record of the tag file read back: its columns and its extension       *)
(* fields.                                                                 *)
(***************************************************************************)
\* the places of s where the string t begins
Occurrences(s, t) ==
    {i \in 1..Len(s) : i + Len(t) - 1 <= Len(s) /\ SubSeq(s, i, i + Len(t) - 1) = t}

RECURSIVE SplitFrom(_, _, _)
\* the pieces of s between occurrences of character c, from index i on, the
\* piece in progress starting at index from
SplitFrom(s, c, from) ==
    LET at == {i \in from..Len(s) : s[i] = c}
        first == CHOOSE i \in at : \A j \in at : i <= j
    IN  IF at = {} THEN << SubSeq(s, from, Len(s)) >>
        ELSE << SubSeq(s, from, first - 1) >> \o SplitFrom(s, c, first + 1)

\* the tab-separated columns of a record, its newline left out
Columns(record) == SplitFrom(SubSeq(record, 1, Len(record) - 1), 9, 1)

\* the place of an extension field in the documented order, told from its
\* key: a field without a key is the kind, a field whose key is no field
\* name is the scope written as <kind>:<name>
Place(field) ==
    LET key == SplitFrom(field, 58, 1)[1]
    IN  CASE Occurrences(field, <<58>>) = {} -> 1
          [] key = S_kind -> 1
          [] key = S_line -> 2
          [] key = S_language -> 3
          [] key = S_scope -> 4
          [] key = S_typeref -> 5
          [] key = S_file -> 6
          [] key = S_inherits -> 7
          [] key = S_access -> 8
          [] key = S_implementation -> 9
          [] key = S_signature -> 10
          [] key = S_role -> 11
          [] OTHER -> 4

\* the separator ;"
Separator == <<59, 34>>

\* the record has the name, the file and the address, and nothing else
OriginalFormat(record) ==
    /\ Len(Columns(record)) = 3
    /\ Occurrences(record, Separator) = {}

\* the record's extension fields come each after a tab, in the documented
\* order, and ;" stands once, right before the first of them
ExtendedFormat(cols, record) ==
    /\ Len(cols) >= 3
    /\ \A i \in 4..(Len(cols) - 1) : Place(cols[i]) < Place(cols[i + 1])
    /\ IF Len(cols) = 3 THEN Occurrences(record, Separator) = {}
       ELSE Occurrences(record, Separator) =
               {Len(cols[1]) + Len(cols[2]) + Len(cols[3]) + 1}

\* the records written whole
WrittenRecords == {i \in 1..Len(fp) : fp[i] # <<>> /\ fp[i][Len(fp[i])] = 10}

\* C20: a record written with tagFileFormat 1 has no ;" and no extension
\* field; a record written with tagFileFormat 2 has its extension fields in
\* the order kind, line, language, scope, typeref, file, inherits, access,
\* implementation, signature, role, each after a tab, and ;" exactly once,
\* right before the first field, or not at all when it has no field.
C20_ExtensionFieldsInOrder ==
    \A i \in WrittenRecords :
        IF Option.tagFileFormat = 1 THEN OriginalFormat(fp[i])
        ELSE ExtendedFormat(Columns(fp[i]), fp[i])

\* a record of format 2 that has all eleven fields
C20_Witness ==
    /\ Option.tagFileFormat = 2
    /\ \E i \in WrittenRecords :
          /\ Len(Columns(fp[i])) = 14
          /\ \A k \in 1..11 : Place(Columns(fp[i])[k + 3]) = k


(***************************************************************************)
(* The extended format with fields switched off and on between the tags,   *)
(* and scopes named by cork index.  The command line is read before the    *)
(* first tag; one field is switched off afterwards.                        *)
(***************************************************************************)
\* a tag that carries every extension field, and a tag with an access
\* whose scope is no index or the first index makeTagEntry has returned
SwitchTags ==
    {[NewTag(N_b, 2, MacroKind) EXCEPT
          !.scopeKind = ClassKind, !.scopeName = N_Foo,
          !.typeRef = << <<115>>, <<120>> >>, !.isFileScope = TRUE,
          !.inheritance = <<66>>, !.access = <<112>>,
          !.implementation = <<118>>, !.signature = <<40,41>>,
          !.roleIndex = 0]}
    \cup
    {[NewTag(N_b, 2, LetterKind) EXCEPT !.scopeIndex = s, !.access = <<112>>,
                                        !.language = NULL] :
        s \in {SCOPE_NIL} \cup (scopeRefs \cap {1})}

\* the fields switched off: the kind's letter and name, the scope and the
\* role
SwitchTypes == {FIELD_KIND, FIELD_KIND_LONG, FIELD_SCOPE, FIELD_ROLE}

\* enableField called between the tags, once
switchField(type, state) ==
    /\ fieldLog = <<>>
    /\ enableField(type, state, FALSE)

InitSwitch ==
    /\ Option = DefaultOption
    /\ fieldObjects = WithEnabled(ExtensionTypes)
    /\ InitTagFile

NextSwitch ==
    \/ corkTagFile
    \/ uncorkTagFile
    \/ \E tag \in SwitchTags : makeTagEntry(tag)
    \/ \E type \in SwitchTypes : switchField(type, FALSE)

SpecSwitch == InitSwitch /\ [][NextSwitch]_vars


\* the places, in the documented order, of the extension fields of a record
FieldsOf(record) ==
    {Place(Columns(record)[k]) : k \in 4..Len(Columns(record))}

\* the places of the fields that tag has a value for and whose descriptor is
\* enabled; a definition tag is one whose role index is definition, and a
\* scope index counts while the queue is inUse
FieldsDue(tag, definition, inUse) ==
    {p \in 1..11 :
        CASE p = 1 -> isFieldEnabled(FIELD_KIND) \/ isFieldEnabled(FIELD_KIND_LONG)
          [] p = 2 -> isFieldEnabled(FIELD_LINE_NUMBER)
          [] p = 3 -> isFieldEnabled(FIELD_LANGUAGE) /\ tag.language # NULL
          [] p = 4 -> /\ isFieldEnabled(FIELD_SCOPE)
                      /\ \/ tag.scopeName # NULL /\ tag.scopeKind # NoKind
                         \/ tag.scopeIndex # 0 /\ inUse
          [] p = 5 -> /\ isFieldEnabled(FIELD_TYPE_REF)
                      /\ tag.typeRef[1] # NULL /\ tag.typeRef[2] # NULL
          [] p = 6 -> isFieldEnabled(FIELD_FILE_SCOPE) /\ tag.isFileScope
          [] p = 7 -> isFieldEnabled(FIELD_INHERITANCE) /\ tag.inheritance # NULL
          [] p = 8 -> isFieldEnabled(FIELD_ACCESS) /\ tag.access # NULL
          [] p = 9 -> isFieldEnabled(FIELD_IMPLEMENTATION) /\ tag.implementation # NULL
          [] p = 10 -> isFieldEnabled(FIELD_SIGNATURE) /\ tag.signature # NULL
          [] p = 11 -> isFieldEnabled(FIELD_ROLE) /\ tag.roleIndex # definition}

\* the number of entries of the queue written up to entry i
WrittenUpTo(i) == Cardinality({j \in Written : j <= i})

\* this step, which returns, appends records to the tag file and each has
\* the fields due to its tag: the tag passed to makeTagEntry, or for a
\* flush the entries of the queue that are no placeholders, in their order
RecordsHaveFieldsDue(definition, inUse) ==
    (pc' = "run" /\ Len(fp') > Len(fp)) =>
        IF op' = "makeTagEntry"
        THEN /\ Len(fp') = Len(fp) + 1
             /\ FieldsOf(fp'[Len(fp')]) = FieldsDue(arg', definition, inUse)
        ELSE /\ Len(fp') = Len(fp) + Cardinality(Written)
             /\ \A i \in Written :
                   FieldsOf(fp'[Len(fp) + WrittenUpTo(i)]) =
                       FieldsDue(corkQueue.queue[i], definition, inUse)

MaxEscapeLen == 2

\* TAB, SOH, backslash, slash, semicolon, double quote, "a"
EscapeChars == {9, 1, 92, 47, 59, 34, 97}

EscapeStrings ==
    UNION {[1..n -> EscapeChars] : n \in 1..MaxEscapeLen}

\* the tags a parser makes of the string s: a tag of plain strings, and s
\* as each string of a tag, and as all of them
EscapeTags(s) ==
    LET plain == [NewTag(<<97>>, 1, MacroKind) EXCEPT
                      !.scopeKind = ClassKind, !.scopeName = <<97>>,
                      !.typeRef = << <<97>>, <<97>> >>, !.isFileScope = TRUE,
                      !.inheritance = <<97>>, !.access = <<97>>,
                      !.implementation = <<97>>, !.signature = <<97>>,
                      !.roleIndex = 0]
    IN  {plain,
         [plain EXCEPT !.lineNumberEntry = TRUE],
         [plain EXCEPT !.name = s],
         [plain EXCEPT !.inputFileName = s],
         [plain EXCEPT !.language = s],
         [plain EXCEPT !.scopeName = s],
         [plain EXCEPT !.typeRef = << <<97>>, s >>],
         [plain EXCEPT !.typeRef = << s, <<97>> >>],
         [plain EXCEPT !.inheritance = s],
         [plain EXCEPT !.access = s],
         [plain EXCEPT !.implementation = s],
         [plain EXCEPT !.signature = s],
         [plain EXCEPT !.name = s, !.inputFileName = s, !.language = s,
                       !.scopeName = s, !.typeRef = <<s, s>>,
                       !.inheritance = s, !.access = s, !.implementation = s,
                       !.signature = s]}

\* the string the parser has at hand: the content of the last line of the
\* input file
EscapeString == SubSeq(inputFile[Len(inputFile)], 1, Len(inputFile[Len(inputFile)]) - 1)

\* the first record of a tag file
writeFirstEntry(tag) == fp = <<>> /\ makeTagEntry(tag)

\* an input file of a plain line and a line of the string, or of the line
\* of the string alone
InitEscape ==
    /\ Option = DefaultOption
    /\ \E enabled \in {ExtensionTypes, {}} : fieldObjects = WithEnabled(enabled)
    /\ \E s \in EscapeStrings :
          inputFile \in { << <<97, 10>>, s \o <<10>> >>, << s \o <<10>> >> }
    /\ InitOutput

NextEscape == \E tag \in EscapeTags(EscapeString) : writeFirstEntry(tag)

SpecEscape == InitEscape /\ [][NextEscape]_vars

\* the number of places of s that hold a character of set
CountOf(s, set) == Cardinality({i \in 1..Len(s) : s[i] \in set})

\* the content of a source line: the line up to its end-of-line characters
LineContent(line) == SubSeq(line, 1, ContentLength(line))

\* this step writes the first record of the tag file, and returns
WritesRecord == fp = <<>> /\ Len(fp') = 1 /\ pc' = "run"

\* the record written, without the extension fields of its tag and the
\* newline
BeforeSuffix == 
    SubSeq(fp'[1], 1, Len(fp'[1]) - 1 - Len(addExtensionFields(arg', NULL).text))

\* the tabs of the source line that the address of the record is made of
TabsOfAddress ==
    IF arg'.lineNumberEntry THEN 0
    ELSE CountOf(LineContent(inputFile[arg'.filePosition]), {9})

\* C22 as stated: a record of the extended format has exactly two tabs
\* before its extension fields, one after the name and one after the file,
\* whatever the name, the file name and the source line.
C22_TwoTabsBeforeSuffix ==
    [][WritesRecord => CountOf(BeforeSuffix, {9}) = 2]_vars

\* C22: a record of the extended format has, before its extension fields,
\* the tab after the name, the tab after the file and the tabs of the source
\* line, which the pattern holds as they are: the name and the file name
\* add none.
C22_TwoTabsAndThoseOfLine ==
    [][WritesRecord => CountOf(BeforeSuffix, {9}) = 2 + TabsOfAddress]_vars

\* a record whose name and file name are a tab and a backslash, made of a
\* plain source line: two tabs stand before its extension fields
C22_Witness ==
    /\ op = "makeTagEntry" /\ pc = "run" /\ Len(fp) = 1
    /\ arg.name = <<9, 92>> /\ arg.inputFileName = <<9, 92>>
    /\ Len(inputFile) = 1
    /\ isFieldEnabled(FIELD_ACCESS)
    /\ SubSeq(fp[1], 1, 13) = <<92,116,92,92, 9, 92,116,92,92, 9, 47,94,9>>


\* the control characters
ControlChars == (1..31) \cup {127}

\* the control characters of the source line that the address of the
\* record is made of
ControlsOfAddress ==
    IF arg'.lineNumberEntry THEN 0
    ELSE CountOf(LineContent(inputFile[arg'.filePosition]), ControlChars)

\* the control characters of the values of tag that are in places, the
\* values being the language, the kind of the typeref, the access and the
\* implementation
ControlsOfValues(tag, places) ==
    CountOf((IF 3 \in places THEN tag.language ELSE <<>>)
            \o (IF 5 \in places THEN tag.typeRef[1] ELSE <<>>)
            \o (IF 8 \in places THEN tag.access ELSE <<>>)
            \o (IF 9 \in places THEN tag.implementation ELSE <<>>), ControlChars)

\* the control characters of the record written, its newline and those of
\* its address left out
ControlsWritten ==
    CountOf(SubSeq(fp'[1], 1, Len(fp'[1]) - 1), ControlChars) - ControlsOfAddress

\* C23 as stated: no value of a record of the extended format holds a
\* control character unescaped: the only control characters of the record,
\* its address and its newline apart, are the tab after the name, the tab
\* after the file and the tab before each extension field.
C23_NoControlInValues ==
    [][WritesRecord =>
          ControlsWritten = 2 + Cardinality(FieldsDue(arg', ROLE_INDEX_DEFINITION, FALSE))]_vars

\* C23: the name, the file, the scope name, the name of the typeref, the
\* inheritance and the signature of a record of the extended format hold no
\* control character unescaped; the language, the kind of the typeref, the
\* access and the implementation are written as they are, so the control
\* characters of the record, its address and its newline apart, are the
\* separating tabs and the control characters of those four values.
C23_NoControlInEscapedValues ==
    [][WritesRecord =>
          ControlsWritten =
              2 + Cardinality(FieldsDue(arg', ROLE_INDEX_DEFINITION, FALSE))
                + ControlsOfValues(arg', FieldsDue(arg', ROLE_INDEX_DEFINITION, FALSE))]_vars

\* a record whose signature is SOH and a tab, written with both escaped
C23_Witness ==
    /\ op = "makeTagEntry" /\ pc = "run" /\ Len(fp) = 1
    /\ arg.signature = <<1, 9>> /\ arg.access = <<97>>
    /\ isFieldEnabled(FIELD_SIGNATURE)
    /\ Occurrences(fp[1], S_signature \o <<58, 92,120,48,49, 92,116>>) # {}


(***************************************************************************)
(* A record of the extended format parsed by its grammar:                  *)
(* name TAB file TAB exaddr [;" TAB key:value ...].                        *)
(***************************************************************************)
\* the value of a hexadecimal digit, -1 for any other character
XDigitValue(c) ==
    IF c \in 48..57 THEN c - 48
    ELSE IF c \in 65..70 THEN c - 55
    ELSE IF c \in 97..102 THEN c - 87 ELSE -1

RECURSIVE Unescape(_)
\* s with its backslash escapes undone
Unescape(s) ==
    IF s = <<>> THEN <<>>
    ELSE IF s[1] # 92 \/ Len(s) = 1 THEN <<s[1]>> \o Unescape(Tail(s))
    ELSE IF s[2] = 120 /\ Len(s) >= 4 /\ XDigitValue(s[3]) >= 0 /\ XDigitValue(s[4]) >= 0
    THEN <<16 * XDigitValue(s[3]) + XDigitValue(s[4])>> \o Unescape(SubSeq(s, 5, Len(s)))
    ELSE (CASE s[2] = 97 -> <<7>>
            [] s[2] = 98 -> <<8>>
            [] s[2] = 116 -> <<9>>
            [] s[2] = 110 -> <<10>>
            [] s[2] = 118 -> <<11>>
            [] s[2] = 102 -> <<12>>
            [] s[2] = 114 -> <<13>>
            [] s[2] = 92 -> <<92>>
            [] OTHER -> <<92, s[2]>>) \o Unescape(SubSeq(s, 3, Len(s)))

RECURSIVE ClosingDelimiter(_, _, _)
\* the place of the first delimiter d of s at or after i that no backslash
\* escapes, 0 when there is none
ClosingDelimiter(s, d, i) ==
    IF i > Len(s) THEN 0
    ELSE IF s[i] = 92 THEN ClosingDelimiter(s, d, i + 2)
    ELSE IF s[i] = d THEN i
    ELSE ClosingDelimiter(s, d, i + 1)

\* the length of the address s begins with: a search pattern up to its
\* closing delimiter, or a line number
AddressLength(s) ==
    IF s # <<>> /\ s[1] \in {47, 63} THEN ClosingDelimiter(s, s[1], 2)
    ELSE Cardinality({n \in 1..Len(s) : \A j \in 1..n : s[j] \in 48..57})

\* an extension field as key and value, the value unescaped; a field
\* without a colon is a kind
ParsedField(field) ==
    LET colons == Occurrences(field, <<58>>)
        first == CHOOSE i \in colons : \A j \in colons : i <= j
    IN  IF colons = {} THEN <<S_kind, Unescape(field)>>
        ELSE <<SubSeq(field, 1, first - 1),
               Unescape(SubSeq(field, first + 1, Len(field)))>>

\* the record parsed, a record that does not follow the grammar having no
\* fields of the kind the grammar names
ParseLine(record) ==
    LET cols == Columns(record)
        rest == SubSeq(record, Len(cols[1]) + Len(cols[2]) + 3, Len(record) - 1)
        n == AddressLength(rest)
        suffix == SubSeq(rest, n + 1, Len(rest))
    IN  IF Len(cols) < 3 \/ n = 0 THEN [name |-> NULL]
        ELSE [name |-> Unescape(cols[1]),
              file |-> Unescape(cols[2]),
              address |-> SubSeq(rest, 1, n),
              fields |-> IF suffix = <<>> THEN {}
                         ELSE IF Len(suffix) < 3 \/ SubSeq(suffix, 1, 3) # <<59, 34, 9>>
                         THEN {<<NULL, suffix>>}
                         ELSE {ParsedField(SplitFrom(suffix, 9, 4)[k]) :
                                  k \in 1..Len(SplitFrom(suffix, 9, 4))}]

\* the extension field of tag at place p, as key and value
FieldAt(tag, p) ==
    CASE p = 1 -> <<S_kind, tag.kind.name>>
      [] p = 2 -> <<S_line, Digits(tag.lineNumber)>>
      [] p = 3 -> <<S_language, tag.language>>
      [] p = 4 -> <<S_scope, tag.scopeKind.name \o <<58>> \o tag.scopeName>>
      [] p = 5 -> <<S_typeref, tag.typeRef[1] \o <<58>> \o tag.typeRef[2]>>
      [] p = 6 -> <<S_file, <<>> >>
      [] p = 7 -> <<S_inherits, tag.inheritance>>
      [] p = 8 -> <<S_access, tag.access>>
      [] p = 9 -> <<S_implementation, tag.implementation>>
      [] p = 10 -> <<S_signature, tag.signature>>
      [] p = 11 -> <<S_role, tag.kind.roles[tag.roleIndex + 1]>>

\* what the record of tag is to be parsed as: its name, its file, the line
\* number or the pattern of its source line, and the fields due
ParsedTag(tag, places) ==
    [name |-> tag.name,
     file |-> tag.inputFileName,
     address |-> IF tag.lineNumberEntry THEN Digits(tag.lineNumber)
                 ELSE DescribedPattern(inputFile[tag.filePosition]),
     fields |-> {FieldAt(tag, p) : p \in places}]

\* the values of tag in places that are written as they are: the language,
\* the kind of the typeref, the access and the implementation
RawValues(tag, places) ==
    (IF 3 \in places THEN tag.language ELSE <<>>)
    \o (IF 5 \in places THEN tag.typeRef[1] ELSE <<>>)
    \o (IF 8 \in places THEN tag.access ELSE <<>>)
    \o (IF 9 \in places THEN tag.implementation ELSE <<>>)

\* the record written parses as the tag it was written of
RoundTrip ==
    ParseLine(fp'[1]) = ParsedTag(arg', FieldsDue(arg', ROLE_INDEX_DEFINITION, FALSE))

\* C24 as stated: a record of the extended format, split by the grammar and
\* its backslash escapes undone, gives back the name, the file, the address
\* and the extension fields of its tag, whatever the strings of the tag.
C24_RoundTrip == [][WritesRecord => RoundTrip]_vars

\* C24: a record of the extended format, split by the grammar and its
\* backslash escapes undone, gives back the name, the file, the address and
\* the extension fields of its tag, when the values written as they are
\* (language, kind of the typeref, access, implementation) hold no tab and
\* no backslash.
C24_RoundTripOfPlainRawValues ==
    [][(WritesRecord /\ CountOf(RawValues(arg', FieldsDue(arg', ROLE_INDEX_DEFINITION, FALSE)), {9, 92}) = 0)
          => RoundTrip]_vars

\* a record whose name and whose source line are a tab and a slash, written
\* with its extension fields and parsed back
C24_Witness ==
    /\ op = "makeTagEntry" /\ pc = "run" /\ Len(fp) = 1
    /\ arg.name = <<9, 47>> /\ arg.access = <<97>>
    /\ inputFile = << <<9, 47, 10>> >>
    /\ isFieldEnabled(FIELD_ACCESS)
    /\ ParseLine(fp[1]).name = <<9, 47>>
    /\ ParseLine(fp[1]).address = <<47, 94, 9, 92, 47, 36, 47>>
    /\ Cardinality(ParseLine(fp[1]).fields) = 11


(***************************************************************************)
(* The tag file on disk.  A file is the sequence of its lines, each with   *)
(* its newline; NoFile is a name that no file has.  While the tag file is  *)
(* open, fp holds its lines up to the position of the stream, and physical *)
(* the bytes it held when the position was last set back.                  *)
(***************************************************************************)
NoFile == <<NULL>>

\* the name of the temporary file of the tags that go to the standard output
S_temp == <<116,97,103,115,46,88,88>>

\* the bytes of a file
Bytes(file) == IF file = NoFile THEN <<>> ELSE Concat(file)

RECURSIVE Run(_, _, _, _)
\* the length of the run of characters of s from index i on that are in set
\* (in TRUE), or that are not in set (in FALSE): a %[...] of sscanf
Run(s, i, set, in) ==
    IF i <= Len(s) /\ ((s[i] \in set) = in) THEN 1 + Run(s, i + 1, set, in) ELSE 0

isValidTagAddress(excmd) ==
    \/ excmd[1] \in {47, 63}
    \/ LET n == Run(excmd, 1, {59, 10}, FALSE)
       IN  n >= 1 /\ \A j \in 1..n : excmd[j] \in 48..57

\* sscanf (line, "%[^\t]%[\t]%[^\t]%[\t]%[^\r\n]", ...) gives five fields,
\* each tab field is one tab, and the three tests on the fields hold
isCtagsLine(line) ==
    LET tag == Run(line, 1, {9}, FALSE)
        tab1 == Run(line, 1 + tag, {9}, TRUE)
        srcFile == Run(line, 1 + tag + tab1, {9}, FALSE)
        tab2 == Run(line, 1 + tag + tab1 + srcFile, {9}, TRUE)
        excmd == Run(line, 1 + tag + tab1 + srcFile + tab2, {13, 10}, FALSE)
    IN  /\ tag >= 1 /\ tab1 >= 1 /\ srcFile >= 1 /\ tab2 >= 1 /\ excmd >= 1
        /\ tab1 = 1
        /\ tab2 = 1
        /\ line[1] # 35
        /\ line[tag + tab1 + srcFile] # 59
        /\ isValidTagAddress(SubSeq(line, 1 + tag + tab1 + srcFile + tab2, Len(line)))

isEtagsLine(line) ==
    /\ line # <<>> /\ line[1] = 12
    /\ Len(line) >= 2 /\ line[2] \in {10, 13}

\* any file taken for a tag file
isTagFileAlways(file) == TRUE

\* fopen gives ENOENT for a name without a file; readLineRaw gives NULL for
\* a file without a line
isTagFile(file) ==
    IF file = NoFile THEN TRUE
    ELSE IF file = <<>> THEN TRUE
    ELSE isCtagsLine(file[1]) \/ isEtagsLine(file[1])

(***************************************************************************)
(* The pseudo-tags.                                                        *)
(***************************************************************************)
PSEUDO_TAG_PREFIX == <<33,95>>

PSEUDO_TAG_SEPARATOR == <<33>>

S_TAG_FILE_FORMAT == <<84,65,71,95,70,73,76,69,95,70,79,82,77,65,84>>

S_TAG_FILE_SORTED == <<84,65,71,95,70,73,76,69,95,83,79,82,84,69,68>>

S_TAG_PROGRAM_AUTHOR == <<84,65,71,95,80,82,79,71,82,65,77,95,65,85,84,72,79,82>>

S_TAG_PROGRAM_NAME == <<84,65,71,95,80,82,79,71,82,65,77,95,78,65,77,69>>

S_TAG_PROGRAM_URL == <<84,65,71,95,80,82,79,71,82,65,77,95,85,82,76>>

S_TAG_PROGRAM_VERSION == <<84,65,71,95,80,82,79,71,82,65,77,95,86,69,82,83,73,79,78>>

\* "0=unsorted, 1=sorted, 2=foldcase"
S_sortedComment == <<48,61,117,110,115,111,114,116,101,100,44,32,49,61,115,111,114,116,101,100,44,32,50,61,102,111,108,100,99,97,115,101>>

\* the strings of ctags.h, in short: the author, the name, the URL and the
\* version of the program
AUTHOR_NAME == <<65>>

PROGRAM_NAME == <<80>>

PROGRAM_URL == <<85>>

PROGRAM_VERSION == <<86>>

\* the comment of the format pseudo-tag
formatComment ==
    IF Option.tagFileFormat = 1 THEN <<111,114,105,103,105,110,97,108,32,99,116,97,103,115,32,102,111,114,109,97,116>>
    ELSE IF Option.tagFileFormat = 2
    THEN <<101,120,116,101,110,100,101,100,32,102,111,114,109,97,116,59,32,45,45,102,111,114,109,97,116,61,49,32,119,105,108,108,32,110,111,116,32,97,112,112,101,110,100,32,59,34,32,116,111,32,108,105,110,101,115>>
    ELSE <<117,110,107,110,111,119,110,32,102,111,114,109,97,116>>

\* the sort with case folded is written as the plain sort
SortedFlagOne == IF Option.sorted = SO_UNSORTED THEN 48 ELSE 49

\* the character of the sort mode
SortedFlag ==
    IF Option.sorted = SO_FOLDSORTED THEN 50
    ELSE IF Option.sorted = SO_SORTED THEN 49 ELSE 48

\* writePseudoTag on the writer's state W: the line is printed, an error of
\* the stream stops the program, the tag is counted
writePseudoTag(W, tagName, fileName, pattern, language, ferror) ==
    LET text == IF language # NULL
                THEN PSEUDO_TAG_PREFIX \o tagName \o PSEUDO_TAG_SEPARATOR \o language
                     \o <<9>> \o fileName \o <<9>> \o pattern \o <<10>>
                ELSE PSEUDO_TAG_PREFIX \o tagName \o <<9>> \o fileName
                     \o <<9, 47>> \o pattern \o <<47, 10>>
    IN  IF W.pc # "run" THEN W
        ELSE IF ferror THEN [W EXCEPT !.fp = Append(@, text), !.pc = "fatal"]
        ELSE [W EXCEPT !.fp = Append(@, text),
                       !.numTags.added = @ + 1,
                       !.max = rememberMaxLengths(@, Len(tagName), Len(text))]

addPseudoTags(W, ferror) ==
    IF Option.xref THEN W
    ELSE writePseudoTag(
           writePseudoTag(
             writePseudoTag(
               writePseudoTag(
                 writePseudoTag(
                   writePseudoTag(W, S_TAG_FILE_FORMAT, Digits(Option.tagFileFormat),
                                  formatComment, NULL, ferror),
                   S_TAG_FILE_SORTED, <<SortedFlag>>, S_sortedComment, NULL, ferror),
                 S_TAG_PROGRAM_AUTHOR, AUTHOR_NAME, <<>>, NULL, ferror),
               S_TAG_PROGRAM_NAME, PROGRAM_NAME,
               <<68,101,114,105,118,101,100,32,102,114,111,109,32,69,120,117,98,101,114,97,110,116,32,67,116,97,103,115>>, NULL, ferror),
             S_TAG_PROGRAM_URL, PROGRAM_URL, <<111,102,102,105,99,105,97,108,32,115,105,116,101>>, NULL, ferror),
           S_TAG_PROGRAM_VERSION, PROGRAM_VERSION, <<>>, NULL, ferror)



\* the characters of isspace
WhiteSpace == {32, 9, 10, 11, 12, 13}

\* character i of the C string s: 0 at its end
CharAt(s, i) == IF i >= 1 /\ i <= Len(s) THEN s[i] ELSE 0

\* sscanf (s, "%15s%c", classType, &tab): the number of fields, and the two
ScanClassType(s) ==
    LET skipped == Run(s, 1, WhiteSpace, TRUE)
        word == Run(s, 1 + skipped, WhiteSpace, FALSE)
        n == IF word > 15 THEN 15 ELSE word
    IN  [fields |-> IF n = 0 THEN 0 ELSE IF skipped + n + 1 > Len(s) THEN 1 ELSE 2,
         classType |-> SubSeq(s, 1 + skipped, skipped + n),
         tab |-> CharAt(s, skipped + n + 1)]

\* updateSortedFlag for line i of file, the stream having read it, with
\* startOfLine the line whose start was the last position taken; seeks tells
\* whether fgetpos and fsetpos succeed.  The result is [file, warned].
updateSortedFlag(file, i, startOfLine, seeks) ==
    LET line == file[i]
        boolOffset == Run(line, 1, {9}, FALSE) + 2
        from == file[startOfLine]
        stop == Run(from, 1, {9, 10}, FALSE) + 1
        c == CharAt(from, stop)
        d == CharAt(from, stop + 1)
    IN  IF Run(line, 1, {9}, FALSE) = Len(line) THEN [file |-> file, warned |-> FALSE]
        ELSE IF CharAt(line, boolOffset) \notin {48, 49}
        THEN [file |-> file, warned |-> FALSE]
        ELSE IF ~seeks THEN [file |-> file, warned |-> TRUE]
        ELSE IF c = 9 /\ d \in {48, 49} /\ d # Option.sorted
        THEN [file |-> [file EXCEPT ![startOfLine][stop + 1] = SortedFlag],
              warned |-> FALSE]
        ELSE [file |-> file, warned |-> FALSE]

\* "!_TAG_FILE"
S_entry == PSEUDO_TAG_PREFIX \o <<84,65,71,95,70,73,76,69>>

RECURSIVE updatePseudoTagsFrom(_, _, _, _, _)
\* the first loop of updatePseudoTags from line i on
updatePseudoTagsFrom(file, i, startOfLine, seeks, warning) ==
    IF i > Len(file) \/ file[i][1] # S_entry[1]
    THEN [file |-> file, warned |-> warning]
    ELSE IF Len(file[i]) >= Len(S_entry) /\ SubSeq(file[i], 1, Len(S_entry)) = S_entry
    THEN LET scan == ScanClassType(SubSeq(file[i], Len(S_entry) + 1, Len(file[i])))
             updated ==
                 IF scan.fields = 2 /\ scan.tab = 9 /\ scan.classType = <<95,83,79,82,84,69,68>>
                 THEN updateSortedFlag(file, i, startOfLine, seeks)
                 ELSE [file |-> file, warned |-> FALSE]
         IN  updatePseudoTagsFrom(updated.file, i + 1, i + 1, seeks,
                                  warning \/ updated.warned)
    ELSE updatePseudoTagsFrom(file, i + 1, startOfLine, seeks, warning)

\* updatePseudoTags on the lines of the file: [file, warned, linesRead]
updatePseudoTags(file, seeks) ==
    LET walked == updatePseudoTagsFrom(file, 1, 1, seeks, FALSE)
    IN  [file |-> walked.file, warned |-> walked.warned, linesRead |-> Len(file)]


(***************************************************************************)
(* Opening the tag file.  isDestinationStdout, tempFile and doesFileExist  *)
(* are of options.c and routines.c.                                        *)
(***************************************************************************)
isDestinationStdout == Option.xref \/ Option.tagFileName = S_dash

\* isXtagEnabled (XTAG_PSEUDO_TAGS)
PseudoTagsEnabled == Option.pseudoTags

\* the writer's state with the stream on file
OpenedOn(file) == [Writer EXCEPT !.fp = file]

\* openTagFile: the tags go to a temporary file when the destination is the
\* standard output; a destination that exists and is no tag file stops the
\* program; the etags file is opened "a+b" or "w+b"; the ctags file is
\* opened "r+" for updatePseudoTags and then "a+", or "w" for addPseudoTags
openTagFile ==
    /\ pc = "run"
    /\ tagFileName = NULL
    /\ op' = "openTagFile"
    /\ arg' = <<>>
    /\ ret' = 0
    /\ TagsToStdout' = isDestinationStdout
    /\ \E ferror, seeks \in BOOLEAN :
          IF isDestinationStdout
          THEN /\ tagFileName' = S_temp
               /\ tempFiles' = tempFiles \cup {S_temp}
               /\ disk' = <<>>
               /\ SetWriter(IF PseudoTagsEnabled
                            THEN addPseudoTags(OpenedOn(<<>>), ferror)
                            ELSE OpenedOn(<<>>))
               /\ warned' = FALSE
          ELSE /\ tagFileName' = Option.tagFileName
               /\ UNCHANGED tempFiles
               /\ IF disk # NoFile /\ ~isTagFile(disk)
                  THEN /\ pc' = "fatal"
                       /\ warned' = FALSE
                       /\ UNCHANGED <<disk, fp, etags, numTags, max, patternCache>>
                  ELSE IF Option.etags
                  THEN /\ SetWriter(OpenedOn(IF Option.append /\ disk # NoFile
                                             THEN disk ELSE <<>>))
                       /\ disk' = IF Option.append /\ disk # NoFile THEN disk ELSE <<>>
                       /\ warned' = FALSE
                  ELSE IF Option.append /\ disk # NoFile
                  THEN LET updated == updatePseudoTags(disk, seeks)
                       IN  /\ SetWriter([OpenedOn(updated.file) EXCEPT
                                            !.numTags.prev = updated.linesRead])
                           /\ disk' = updated.file
                           /\ warned' = updated.warned
                  ELSE /\ SetWriter(IF PseudoTagsEnabled
                                    THEN addPseudoTags(OpenedOn(<<>>), ferror)
                                    ELSE OpenedOn(<<>>))
                       /\ disk' = <<>>
                       /\ warned' = FALSE
    /\ UNCHANGED <<Option, fieldVars, cork, corkQueue, inputFile, scopeRefs,
                   tagsLeft, stdout, physical, closing>>

(***************************************************************************)
(* Closing the tag file.                                                   *)
(***************************************************************************)
\* the number of tags submitted between openTagFile and closeTagFile
MaxFileTags == 2

BufferSize == 1000

WHOLE_FILE == -1

RECURSIVE copyBytesFrom(_, _, _)
\* the bytes the loop of copyBytes writes, from the bytes left to read and
\* the count remaining
copyBytesFrom(from, remaining, written) ==
    LET toRead == IF 0 < remaining /\ remaining < BufferSize
                  THEN remaining ELSE BufferSize
        numRead == IF Len(from) < toRead THEN Len(from) ELSE toRead
        left == IF remaining > 0 THEN remaining - numRead ELSE remaining
    IN  IF numRead = toRead /\ left # 0
        THEN copyBytesFrom(SubSeq(from, numRead + 1, Len(from)), left,
                           written \o SubSeq(from, 1, numRead))
        ELSE written \o SubSeq(from, 1, numRead)

\* copyBytes: what toFp receives of the bytes of fromFp
copyBytes(from, size) == copyBytesFrom(from, size, <<>>)

\* copyFile (from, to, size): the bytes of the file to afterwards
copyFile(from, size) == copyBytes(from, size)

\* replacementTruncate: the bytes of the file afterwards, copied to a
\* temporary file and back
replacementTruncate(bytes, size) == copyFile(copyFile(bytes, size), WHOLE_FILE)

\* the functions resizeTagFile is compiled to call
Primitives == {"replacementTruncate", "truncate", "ftruncate", "chsize"}

\* resizeTagFile: the bytes of the file afterwards, result being what the
\* library function returns
resizeTagFile(bytes, newSize, primitive, result) ==
    IF primitive = "replacementTruncate" THEN replacementTruncate(bytes, newSize)
    ELSE IF result = -1 THEN bytes
    ELSE SubSeq(bytes, 1, newSize)

\* the lines of a file of these bytes
Lines(bytes) ==
    LET ends == {i \in 1..Len(bytes) : bytes[i] = 10} \cup {Len(bytes)}
        end(k) == CHOOSE e \in ends : Cardinality({x \in ends : x <= e}) = k
    IN  IF bytes = <<>> THEN <<>>
        ELSE [k \in 1..Cardinality(ends) |->
                 SubSeq(bytes, IF k = 1 THEN 1 ELSE end(k - 1) + 1, end(k))]

\* the bytes of the tag file: those written up to the position of the
\* stream, and those beyond it that the file held when the position was set
PhysicalBytes ==
    IF Len(Bytes(fp)) >= Len(physical) THEN Bytes(fp)
    ELSE Bytes(fp) \o SubSeq(physical, Len(Bytes(fp)) + 1, Len(physical))

\* fsetpos (TagFile.fp, ...) by the caller that takes back the tags of a
\* parser to run another: the position and the count of tags are set back
\* to what they were before the last n tags submitted
fsetpos(n) ==
    /\ pc = "run"
    /\ tagFileName # NULL
    /\ ~Option.etags
    /\ n >= 1 /\ n <= MaxFileTags - tagsLeft /\ n <= Len(fp)
    /\ physical' = PhysicalBytes
    /\ fp' = SubSeq(fp, 1, Len(fp) - n)
    /\ tagsLeft' = tagsLeft + n
    /\ numTags' = [numTags EXCEPT !.added = @ - n]
    /\ op' = "fsetpos"
    /\ arg' = n
    /\ ret' = 0
    /\ warned' = FALSE
    /\ UNCHANGED <<Option, fieldVars, etags, max, cork, corkQueue,
                   patternCache, inputFile, scopeRefs, pc,
                   TagsToStdout, tagFileName, disk, stdout, tempFiles, closing>>

\* closeTagFile up to the close of the stream: the stream is flushed, an
\* error of the stream stops the program, the position and the size of the
\* file are taken, and the stream of a named file is closed
closeTagFile(resize) ==
    /\ pc = "run"
    /\ tagFileName # NULL
    /\ op' = "closeTagFile"
    /\ arg' = resize
    /\ ret' = 0
    /\ warned' = FALSE
    /\ disk' = Lines(PhysicalBytes)
    /\ closing' = [resize |-> resize, desiredSize |-> Len(Bytes(fp)),
                   size |-> Len(PhysicalBytes)]
    /\ \E ferror, closes \in BOOLEAN :
          pc' = IF ferror \/ (~TagsToStdout /\ ~closes) THEN "fatal" ELSE "resize"
    /\ UNCHANGED <<Option, fieldVars, writerVars, cork, corkQueue, inputFile,
                   scopeRefs, tagsLeft, TagsToStdout, tagFileName, stdout,
                   tempFiles, physical>>

\* closeTagFile, next: the file is shortened when resize is asked for and
\* the position is before the end
resizeStage ==
    /\ pc = "resize"
    /\ pc' = "sort"
    /\ op' = "resizeTagFile"
    /\ IF closing.resize /\ closing.desiredSize < closing.size
       THEN \E primitive \in Primitives, result \in {0, -1} :
               /\ arg' = primitive
               /\ ret' = IF primitive = "replacementTruncate" THEN 0 ELSE result
               /\ warned' = (ret' = -1)
               /\ disk' = Lines(resizeTagFile(Bytes(disk), closing.desiredSize,
                                              primitive, result))
       ELSE /\ arg' = "none"
            /\ ret' = 0
            /\ warned' = FALSE
            /\ UNCHANGED disk
    /\ UNCHANGED <<Option, fieldVars, writerVars, cork, corkQueue, inputFile,
                   scopeRefs, tagsLeft, TagsToStdout, tagFileName, stdout,
                   tempFiles, physical, closing>>

\* a line is before another in the order of the bytes, letters folded when
\* fold is TRUE
LineBefore(a, b, fold) ==
    LET f(c) == IF fold /\ c \in 97..122 THEN c - 32 ELSE c
        differ == {i \in 1..Len(a) : i > Len(b) \/ f(a[i]) # f(b[i])}
        first == CHOOSE i \in differ : \A j \in differ : i <= j
    IN  IF differ = {} THEN Len(a) < Len(b)
        ELSE first <= Len(b) /\ f(a[first]) < f(b[first])

\* internalSortTags (sort.c): the lines of the tag file in order
SortedLines(file) ==
    SortSeq(file, LAMBDA a, b : LineBefore(a, b, Option.sorted = SO_FOLDSORTED))

\* the tags are sorted whatever their number
SortsTagsAlways == Option.sorted # SO_UNSORTED

\* the tests of sortTagFile for the sort
SortsTags == numTags.added > 0 /\ Option.sorted # SO_UNSORTED

\* closeTagFile, next: sortTagFile.  The sort writes the lines in order to
\* the standard output or back to the file; without a sort the file of the
\* standard output is copied there by catFile
sortStage ==
    /\ pc = "sort"
    /\ pc' = "remove"
    /\ op' = "sortTagFile"
    /\ arg' = <<>>
    /\ warned' = FALSE
    /\ IF SortsTags
       THEN /\ ret' = "sorted"
            /\ IF TagsToStdout
               THEN stdout' = stdout \o SortedLines(disk) /\ UNCHANGED disk
               ELSE disk' = SortedLines(disk) /\ UNCHANGED stdout
       ELSE IF numTags.added > 0 /\ TagsToStdout
       THEN /\ ret' = "copied"
            /\ stdout' = stdout \o disk
            /\ UNCHANGED disk
       ELSE /\ ret' = "none"
            /\ UNCHANGED <<disk, stdout>>
    /\ UNCHANGED <<Option, fieldVars, writerVars, cork, corkQueue, inputFile,
                   scopeRefs, tagsLeft, TagsToStdout, tagFileName, tempFiles,
                   physical, closing>>

\* closeTagFile, last: the temporary file of the standard output is closed
\* and removed, and the name is cleared
removeStage ==
    /\ pc = "remove"
    /\ op' = "closeTagFile"
    /\ arg' = closing.resize
    /\ ret' = 0
    /\ warned' = FALSE
    /\ \E closes \in BOOLEAN :
          IF TagsToStdout /\ ~closes
          THEN pc' = "fatal" /\ UNCHANGED <<disk, tempFiles, tagFileName, closing>>
          ELSE /\ pc' = "closed"
               /\ disk' = IF TagsToStdout THEN NoFile ELSE disk
               /\ tempFiles' = IF TagsToStdout THEN tempFiles \ {tagFileName}
                               ELSE tempFiles
               /\ tagFileName' = NULL
               /\ closing' = NotClosing
    /\ UNCHANGED <<Option, fieldVars, writerVars, cork, corkQueue, inputFile,
                   scopeRefs, tagsLeft, TagsToStdout, stdout, physical>>


(***************************************************************************)
(* The runs of the tag file from openTagFile to closeTagFile.              *)
(***************************************************************************)
\* a tag file of this program, its sort flag c, with one record
HeaderFile(c) ==
    << PSEUDO_TAG_PREFIX \o S_TAG_FILE_FORMAT \o <<9,50,9,47,120,47,10>>,
       PSEUDO_TAG_PREFIX \o S_TAG_FILE_SORTED \o <<9, c, 9, 47>> \o S_sortedComment \o <<47, 10>>,
       <<97,9,97,46,99,9,47,94,97,36,47,10>> >>

\* a tag file whose first pseudo-tag is not of the file: "!_TAG_PROGRAM_NAME\t0\t//"
ForeignFile ==
    << PSEUDO_TAG_PREFIX \o S_TAG_PROGRAM_NAME \o <<9,48,9,47,47,10>>,
       PSEUDO_TAG_PREFIX \o S_TAG_FILE_SORTED \o <<9, 48, 9, 47>> \o S_sortedComment \o <<47, 10>>,
       <<97,9,97,46,99,9,47,94,97,36,47,10>> >>

\* tag files: none, an empty one, files with pseudo-tags, a file of records
\* with a line number and with a pattern, an etags file
TagFiles ==
    {NoFile, <<>>, HeaderFile(48), HeaderFile(49), HeaderFile(50), ForeignFile,
     << <<97,9,98,9,49,50,59,34,9,102,10>>, <<97,9,97,46,99,9,47,94,97,36,47,10>> >>,
     << <<12,10>>, <<97,46,99,44,48,10>> >>}

\* files that are no tag files: "int a;", a tag that begins with #, a file
\* name that ends with ;, two tabs after the tag, an address that is
\* neither a pattern nor a number, and a line of two fields
OtherFiles ==
    {<< <<105,110,116,32,97,59,10>>, <<120,10>> >>,
     << <<35,97,9,98,9,49,10>> >>,
     << <<97,9,98,59,9,49,10>> >>,
     << <<97,9,9,98,9,49,10>> >>,
     << <<97,9,98,9,120,49,10>> >>,
     << <<97,9,98,10>> >>}

\* the options of a run: a named ctags file, written anew or appended to,
\* sorted or not, with and without pseudo-tags; a named etags file; the
\* standard output, for tags and for cross-references
FileOptions ==
    {[DefaultOption EXCEPT !.append = a, !.sorted = s, !.pseudoTags = p] :
        a \in BOOLEAN, s \in {SO_UNSORTED, SO_SORTED, SO_FOLDSORTED}, p \in BOOLEAN}
    \cup
    {[DefaultOption EXCEPT !.append = a, !.etags = TRUE] : a \in BOOLEAN}
    \cup
    {[DefaultOption EXCEPT !.tagFileName = S_dash, !.sorted = s, !.pseudoTags = p] :
        s \in {SO_UNSORTED, SO_SORTED}, p \in BOOLEAN}
    \cup
    {[DefaultOption EXCEPT !.xref = TRUE]}

\* the tag of the run
FileTags == {NewTag(N_Foo, 1, ClassKind)}

\* a tag written to the open tag file
writeToTagFile(tag) == tagFileName # NULL /\ makeTagEntry(tag)

\* before openTagFile: the file of the name Option.tagFileName is any file
InitFile ==
    /\ Option \in FileOptions
    /\ disk \in (IF Option.tagFileName = S_dash THEN {NoFile}
                 ELSE TagFiles \cup OtherFiles)
    /\ fieldObjects = initFieldObjects
    /\ fieldObjectAllocated = Len(initFieldObjects)
    /\ fieldLog = <<>>
    /\ initialized = FALSE
    /\ parserInitialized = {}
    /\ fp = NoFile
    /\ etags = [fp |-> <<>>, byteCount |-> 0]
    /\ numTags = [added |-> 0, prev |-> 0]
    /\ max = [tag |-> 0, line |-> 0]
    /\ cork = 0
    /\ corkQueue = [queue |-> NoQueue, length |-> 0, count |-> 0]
    /\ patternCache = [valid |-> FALSE, pattern |-> NULL, location |-> 0]
    /\ inputFile = SourceLines
    /\ scopeRefs = {}
    /\ tagsLeft = MaxFileTags
    /\ pc = "run"
    /\ op = "init" /\ arg = <<>> /\ ret = 0 /\ warned = FALSE
    /\ TagsToStdout = FALSE
    /\ tagFileName = NULL
    /\ stdout = <<>>
    /\ tempFiles = {}
    /\ physical = <<>>
    /\ closing = NotClosing

NextFile ==
    \/ openTagFile
    \/ \E tag \in FileTags : writeToTagFile(tag)
    \/ \E n \in 1..MaxFileTags : fsetpos(n)
    \/ \E resize \in BOOLEAN : closeTagFile(resize)
    \/ resizeStage
    \/ sortStage
    \/ removeStage

SpecFile == InitFile /\ [][NextFile]_vars


\* a line of five fields: a tag that does not begin with #, a tab, a file
\* name that does not end with ;, a tab, and an address that is a search
\* pattern or a line number
FiveFieldLine(line) ==
    LET cols == SplitFrom(line, 9, 1)
        excmd == SubSeq(line, Len(cols[1]) + Len(cols[2]) + 3, Len(line))
        digits == {n \in 1..Len(excmd) : \A j \in 1..n : excmd[j] \in 48..57}
    IN  /\ Len(cols) >= 3
        /\ cols[1] # <<>> /\ cols[1][1] # 35
        /\ cols[2] # <<>> /\ cols[2][Len(cols[2])] # 59
        /\ excmd # <<>>
        /\ \/ excmd[1] \in {47, 63}
           \/ /\ digits # {}
              /\ \/ Cardinality(digits) = Len(excmd)
                 \/ excmd[Cardinality(digits) + 1] \in {59, 10}

\* the line that begins a section of an etags file: a form feed
FormFeedLine(line) == Len(line) >= 2 /\ line[1] = 12 /\ line[2] \in {10, 13}

\* this step is openTagFile with a named destination
OpensNamed == op' = "openTagFile" /\ Option.tagFileName # S_dash /\ ~Option.xref

\* the destination is a file that has a first line, which is neither
NoTagFile ==
    /\ disk # NoFile /\ disk # <<>>
    /\ ~FiveFieldLine(disk[1]) /\ ~FormFeedLine(disk[1])

\* C25: openTagFile on a named destination that exists and whose first line
\* is neither a five-field ctags line nor the form feed of etags stops the
\* program with the file as it was and no stream opened, when appending and
\* when overwriting; a destination that does not exist, or is empty, or
\* begins with such a line, is opened.
C25_RefusesToOverwrite ==
    [][OpensNamed =>
          IF NoTagFile THEN pc' = "fatal" /\ disk' = disk /\ fp' = NoFile
          ELSE fp' # NoFile]_vars

\* openTagFile has refused to append to a file that begins with "int a;"
C25_Witness ==
    /\ op = "openTagFile" /\ pc = "fatal" /\ Option.append
    /\ fp = NoFile
    /\ disk = << <<105,110,116,32,97,59,10>>, <<120,10>> >>


\* this step is openTagFile appending to a ctags file that exists and is
\* taken for a tag file
AppendsToTagFile ==
    /\ OpensNamed /\ Option.append /\ ~Option.etags
    /\ disk # NoFile /\ pc' = "run"

\* the places <<line, column>> where the file differs after the step
ChangedBytes ==
    {p \in UNION {{<<i, j>> : j \in 1..Len(disk[i])} : i \in 1..Len(disk)} :
        disk'[p[1]][p[2]] # disk[p[1]][p[2]]}

\* place p is the sort flag: the byte after the tab that ends the name
\* !_TAG_FILE_SORTED at the start of a line
IsSortFlag(p) ==
    LET name == PSEUDO_TAG_PREFIX \o S_TAG_FILE_SORTED \o <<9>>
    IN  /\ Len(disk[p[1]]) > Len(name)
        /\ SubSeq(disk[p[1]], 1, Len(name)) = name
        /\ p[2] = Len(name) + 1

\* C26: openTagFile appending to a ctags file that exists leaves the file
\* with the lines and the line lengths it had and changes at most one byte,
\* the sort flag of the !_TAG_FILE_SORTED line; numTags.prev is the number
\* of lines of the file.
C26_OnlySortFlagChanges ==
    [][AppendsToTagFile =>
          /\ Len(disk') = Len(disk)
          /\ \A i \in 1..Len(disk) : Len(disk'[i]) = Len(disk[i])
          /\ Cardinality(ChangedBytes) <= 1
          /\ \A p \in ChangedBytes : IsSortFlag(p)
          /\ numTags'.prev = Len(disk)]_vars


\* this step is the resize of closeTagFile, and the function it calls, if
\* any, reports no failure
Resizes == pc = "resize" /\ pc' = "sort" /\ ret' = 0

\* C27: closeTagFile shortens the file exactly when resize is asked for and
\* the written length is below the physical length, and the file then has
\* the written length, whatever that length from 0 to the physical length
\* and whatever the function that shortens it, the copy by a temporary file
\* included; otherwise the file is left as it is.
C27_TruncatesToWrittenLength ==
    [][Resizes =>
          IF closing.resize /\ closing.desiredSize < closing.size
          THEN Len(Bytes(disk')) = closing.desiredSize
          ELSE disk' = disk]_vars


\* the number of times line is in file
TimesIn(file, line) == Cardinality({i \in 1..Len(file) : file[i] = line})

\* two files have the same lines the same number of times
SameLines(a, b) ==
    /\ Len(a) = Len(b)
    /\ \A i \in 1..Len(a) : TimesIn(a, a[i]) = TimesIn(b, a[i])

\* the stages of closeTagFile follow one another: the resize comes from the
\* flush and the close of the stream, the sort from the resize, the removal
\* from the sort
StagesInOrder ==
    /\ op' = "resizeTagFile" => op = "closeTagFile" /\ pc = "resize" /\ disk = Lines(PhysicalBytes)
    /\ op' = "sortTagFile" => op = "resizeTagFile"
    /\ pc' = "closed" => op = "sortTagFile"
    /\ op = "sortTagFile" => op' # "resizeTagFile"

\* the sort stage sorts exactly when a tag was added and a sort is asked for
SortsWhenAsked ==
    op' = "sortTagFile" =>
        ((ret' = "sorted") <=> (numTags.added > 0 /\ Option.sorted # SO_UNSORTED))

\* with the standard output as destination, the lines of the temporary
\* file are on the standard output once when closeTagFile ends, if a tag was
\* added, and nothing is if none was; the file is removed, the name cleared
ReachesStdout ==
    pc' = "closed" =>
        /\ tagFileName' = NULL
        /\ TagsToStdout =>
              /\ IF numTags.added > 0 THEN SameLines(stdout', disk)
                 ELSE stdout' = <<>>
              /\ tempFiles' = {}
              /\ disk' = NoFile

\* C28: closeTagFile flushes (and closes the stream of a named file), then
\* shortens the file if asked, then sorts: the sort never comes before the
\* resize, and sorts only when numTags.added > 0 and a sort is asked for;
\* for the standard output the content of the temporary file reaches it
\* exactly once when a tag was added, then the file is removed and
\* TagFile.name cleared.
C28_CloseInOrder == [][StagesInOrder /\ SortsWhenAsked /\ ReachesStdout]_vars

\* closeTagFile has ended for the standard output: six pseudo-tags and a
\* tag were sorted to it and the temporary file is gone
C28_Witness ==
    /\ op = "closeTagFile" /\ pc = "closed" /\ TagsToStdout
    /\ Option.sorted = SO_SORTED
    /\ numTags.added = 7 /\ Len(stdout) = 7
    /\ tempFiles = {} /\ tagFileName = NULL


\* the names of the pseudo-tags, in the order claimed
PseudoTagNames ==
    <<S_TAG_FILE_FORMAT, S_TAG_FILE_SORTED, S_TAG_PROGRAM_AUTHOR,
      S_TAG_PROGRAM_NAME, S_TAG_PROGRAM_URL, S_TAG_PROGRAM_VERSION>>

\* line begins with text
BeginsWith(line, text) ==
    Len(line) >= Len(text) /\ SubSeq(line, 1, Len(text)) = text

\* line is the line of the pseudo-tag of that name: !_, the name, a tab
IsPseudoTagLine(line, tagName) == BeginsWith(line, <<33, 95>> \o tagName \o <<9>>)

\* line is a line of some pseudo-tag
IsPseudoLine(line) == BeginsWith(line, <<33, 95>>)

\* the destination is made or emptied by openTagFile: the temporary file of
\* the standard output, or a named ctags file not appended to
CreatesDestination ==
    \/ Option.xref \/ Option.tagFileName = S_dash
    \/ ~Option.etags /\ ~(Option.append /\ disk # NoFile)

\* openTagFile has returned
Opens == op' = "openTagFile" /\ pc' = "run"

\* the six lines are what the file has after openTagFile, in their order,
\* the second with the digit of the sort mode, and each is counted
WritesPseudoTags ==
    Opens /\ CreatesDestination /\ Option.pseudoTags /\ ~Option.xref
    => /\ Len(fp') = 6
       /\ \A i \in 1..6 : IsPseudoTagLine(fp'[i], PseudoTagNames[i])
       /\ BeginsWith(fp'[2], <<33, 95>> \o S_TAG_FILE_SORTED \o <<9, 48 + Option.sorted, 9>>)
       /\ Option.sorted \in {0, 1, 2}
       /\ numTags'.added = numTags.added + 6

\* no line is written for cross-references, nor to an existing file that is
\* appended to
WritesNoPseudoTag ==
    Opens /\ (Option.xref \/ (~isDestinationStdout /\ Option.append /\ disk # NoFile))
    => /\ numTags'.added = numTags.added
       /\ Len(fp') = (IF Option.xref THEN 0 ELSE Len(disk))
       /\ Option.xref => fp' = <<>>

\* the lines of the pseudo-tags stay where they are while tags are written
KeepsPseudoTags ==
    pc = "run" /\ pc' = "run" /\ tagFileName # NULL /\ tagFileName' # NULL
    => \A i \in 1..Len(fp) :
          IsPseudoLine(fp[i]) => i <= Len(fp') /\ fp'[i] = fp[i]

\* C29: when openTagFile makes or empties the destination (the temporary
\* file of the standard output, or a named ctags file not appended to) with
\* pseudo-tags enabled and cross-references off, the lines of the
\* pseudo-tags come before every tag, in the order TAG_FILE_FORMAT,
\* TAG_FILE_SORTED, TAG_PROGRAM_AUTHOR, TAG_PROGRAM_NAME, TAG_PROGRAM_URL,
\* TAG_PROGRAM_VERSION, each beginning with !_, TAG_FILE_SORTED with 0, 1 or
\* 2 as the sort mode is; each adds one to numTags.added; none is written
\* for cross-references or when an existing file is appended to.
C29_PseudoTagsFirst == [][WritesPseudoTags /\ WritesNoPseudoTag /\ KeepsPseudoTags]_vars

\* a tag follows the six pseudo-tags of a file sorted with case folded
C29_Witness ==
    /\ pc = "run" /\ tagFileName = S_tags /\ Option.sorted = SO_FOLDSORTED
    /\ Len(fp) = 7 /\ numTags.added = 7
    /\ IsPseudoTagLine(fp[6], S_TAG_PROGRAM_VERSION)
    /\ ~IsPseudoLine(fp[7])


(***************************************************************************)
(* The sections of an etags file: beginEtagsFile opens the sidecar of an   *)
(* input file, the parser's tags go to it, endEtagsFile writes the header  *)
(* and the sidecar to the tag file.                                        *)
(***************************************************************************)
\* the input files of a run
MaxEtagsFiles == 2

\* the name tempFile gives the sidecar
S_etagsTemp == <<116,97,103,115,46,89,89>>

\* "b.c"
N_file2 == <<98,46,99>>

beginEtagsFile ==
    /\ pc = "run"
    /\ op' = "beginEtagsFile"
    /\ arg' = <<>>
    /\ ret' = 0
    /\ etags' = [fp |-> <<>>, byteCount |-> 0]
    /\ tempFiles' = tempFiles \cup {S_etagsTemp}
    /\ UNCHANGED <<Option, fieldVars, fp, numTags, max, patternCache, cork,
                   corkQueue, inputFile, scopeRefs, tagsLeft, pc, warned,
                   TagsToStdout, tagFileName, disk, stdout, physical, closing>>

endEtagsFile(filename) ==
    /\ pc = "run"
    /\ op' = "endEtagsFile"
    /\ arg' = filename
    /\ ret' = 0
    /\ \E ferror \in BOOLEAN :
          LET header == << <<12, 10>>,
                           filename \o <<44>> \o Decimal(etags.byteCount) \o <<10>> >>
          IN  IF ferror
              THEN /\ fp' = fp \o header
                   /\ pc' = "fatal"
                   /\ UNCHANGED <<etags, tempFiles>>
              ELSE IF etags.fp # NoFile
              THEN /\ fp' = fp \o header \o Lines(Bytes(etags.fp))
                   /\ etags' = [etags EXCEPT !.fp = NoFile]
                   /\ tempFiles' = tempFiles \ {S_etagsTemp}
                   /\ UNCHANGED pc
              ELSE /\ fp' = fp \o header
                   /\ UNCHANGED <<etags, tempFiles, pc>>
    /\ UNCHANGED <<Option, fieldVars, numTags, max, patternCache, cork,
                   corkQueue, inputFile, scopeRefs, tagsLeft, warned,
                   TagsToStdout, tagFileName, disk, stdout, physical, closing>>

\* the sections begun so far and ended: the form feeds of the tag file
SectionsWritten == Cardinality({i \in 1..Len(fp) : fp[i] = <<12, 10>>})

\* the driver begins the section of an input file when none is open
beginSection ==
    /\ etags.fp = NoFile
    /\ SectionsWritten < MaxEtagsFiles
    /\ beginEtagsFile

\* a tag of the parser, written while the section is open
writeToSidecar(tag) == etags.fp # NoFile /\ makeTagEntry(tag)

\* the driver ends the section it has begun
endSection(filename) == etags.fp # NoFile /\ endEtagsFile(filename)

\* the etags file opened, no section begun
InitEtags ==
    /\ Option = [DefaultOption EXCEPT !.etags = TRUE]
    /\ fieldObjects = initFieldObjects
    /\ fieldObjectAllocated = Len(initFieldObjects)
    /\ fieldLog = <<>>
    /\ initialized = FALSE
    /\ parserInitialized = {}
    /\ fp = <<>>
    /\ etags = [fp |-> NoFile, byteCount |-> 0]
    /\ numTags = [added |-> 0, prev |-> 0]
    /\ max = [tag |-> 0, line |-> 0]
    /\ cork = 0
    /\ corkQueue = [queue |-> NoQueue, length |-> 0, count |-> 0]
    /\ patternCache = [valid |-> FALSE, pattern |-> NULL, location |-> 0]
    /\ inputFile = SourceLines
    /\ scopeRefs = {}
    /\ tagsLeft = MaxTags
    /\ pc = "run"
    /\ op = "init" /\ arg = <<>> /\ ret = 0 /\ warned = FALSE
    /\ TagsToStdout = FALSE
    /\ tagFileName = Option.tagFileName
    /\ disk = <<>>
    /\ stdout = <<>>
    /\ tempFiles = {}
    /\ physical = <<>>
    /\ closing = NotClosing

NextEtags ==
    \/ beginSection
    \/ \E tag \in FlatTags : writeToSidecar(tag)
    \/ \E filename \in {N_file, N_file2} : endSection(filename)

SpecEtags == InitEtags /\ [][NextEtags]_vars

\* the number of bytes of the lines of a file
BytesIn(file) == Len(Bytes(file))

\* while a section is open, byteCount is the number of bytes of the sidecar
CountsSidecar == pc = "run" /\ etags.fp # NoFile => etags.byteCount = BytesIn(etags.fp)

\* a tag whose source line cannot be read leaves sidecar and count alone
UnreadableAddsNothing ==
    /\ op' = "makeTagEntry"
    /\ ~arg'.isFileEntry /\ ~arg'.placeholder /\ arg'.name # <<>>
    /\ arg'.lineNumber > Len(inputFile)
    => etags' = etags

\* endEtagsFile adds the header with the number of bytes of the sidecar and
\* then the bytes of the sidecar to the tag file; the sidecar is closed and
\* removed, its handle NULL
EndsSection ==
    op' = "endEtagsFile" /\ pc' = "run" =>
        /\ Bytes(fp') = Bytes(fp) \o <<12, 10>> \o arg' \o <<44>>
                        \o Decimal(BytesIn(etags.fp)) \o <<10>> \o Bytes(etags.fp)
        /\ etags'.fp = NoFile
        /\ S_etagsTemp \notin tempFiles'

\* C30: between beginEtagsFile and endEtagsFile, etags.byteCount is the
\* number of bytes of the records written to the sidecar since
\* beginEtagsFile (a tag whose source line cannot be read adds nothing to
\* either); endEtagsFile writes the header with exactly that count to the
\* tag file and then exactly the content of the sidecar; after it the
\* sidecar is closed and removed and its handle cleared.
C30_ByteCountIsSidecar ==
    []CountsSidecar /\ [][UnreadableAddsNothing /\ EndsSection]_vars

\* a section of two tags has ended, one of them with a line that cannot be
\* read: the header and one record are in the tag file
C30_Witness ==
    /\ op = "endEtagsFile" /\ pc = "run"
    /\ etags.fp = NoFile /\ etags.byteCount > 0
    /\ numTags.added = 2 /\ Len(fp) = 3
    /\ tempFiles = {}


(***************************************************************************)
(* The renderers of a field for each writer (field.c): the writers of the  *)
(* Exuberant format and of JSON take the name, the input file and the      *)
(* scope as they are and reject a value with a space or a tab.             *)
(***************************************************************************)
\* the characters of a rendered string before its end
MaxRenderLen == 2

WRITER_U_CTAGS == "WRITER_U_CTAGS"

WRITER_E_CTAGS == "WRITER_E_CTAGS"

WRITER_JSON == "WRITER_JSON"

WRITER_DEFAULT == WRITER_U_CTAGS

Writers == {WRITER_U_CTAGS, WRITER_E_CTAGS, WRITER_JSON}

\* strpbrk (s, accept) != NULL
strpbrk(s, accept) == \E i \in 1..Len(s) : s[i] \in accept

renderAsIs(s) == s

\* a faulty renderer: only a tab is rejected
renderFieldNameNoEscapeTab(tag, rejected) ==
    IF strpbrk(tag.name, {9}) THEN [value |-> NULL, rejected |-> TRUE]
    ELSE [value |-> renderAsIs(tag.name), rejected |-> rejected]

\* the renderers return [value, rejected]: the string returned, and what
\* *rejected holds afterwards, rejected being what it held before
renderFieldNameNoEscape(tag, rejected) ==
    IF strpbrk(tag.name, {32, 9}) THEN [value |-> NULL, rejected |-> TRUE]
    ELSE [value |-> renderAsIs(tag.name), rejected |-> rejected]

renderFieldInputNoEscape(tag, rejected) ==
    LET f == IF Option.lineDirectives /\ tag.sourceFileName # NULL
             THEN tag.sourceFileName ELSE tag.inputFileName
    IN  IF strpbrk(f, {32, 9}) THEN [value |-> NULL, rejected |-> TRUE]
        ELSE [value |-> renderAsIs(f), rejected |-> rejected]

\* the entry of def->renderEscaped for the writer, "NULL" where the table
\* has none
RendererOf(writer, ftype) ==
    IF writer = WRITER_U_CTAGS THEN "escaped"
    ELSE IF ftype \in {FIELD_NAME, FIELD_INPUT_FILE} THEN "noEscape"
    ELSE "NULL"

renderFieldEscaped(writer, ftype, tag, rejected) ==
    LET rfn == IF RendererOf(writer, ftype) = "NULL"
               THEN RendererOf(WRITER_DEFAULT, ftype)
               ELSE RendererOf(writer, ftype)
    IN  IF rfn = "noEscape"
        THEN IF ftype = FIELD_NAME THEN renderFieldNameNoEscape(tag, rejected)
             ELSE renderFieldInputNoEscape(tag, rejected)
        ELSE [value |-> escapeName(tag, ftype), rejected |-> rejected]

\* a tab, a space, a backslash, a control character, a letter
RenderChars == {9, 32, 92, 1, 97}

RenderStrings == UNION {[1..n -> RenderChars] : n \in 0..MaxRenderLen}

\* the tags of a parser whose name or input file is the string s
RenderTags ==
    UNION {{[NewTag(s, 1, ClassKind) EXCEPT !.inputFileName = f] :
               f \in {N_file} \cup ({s} \ {<<>>})} : s \in RenderStrings}

\* what a writer asks renderFieldEscaped for: the writer, the field, the
\* tag, and what *rejected holds
RenderCalls ==
    [writer : Writers, type : {FIELD_NAME, FIELD_INPUT_FILE, FIELD_KIND_LONG},
     tag : RenderTags, rejected : BOOLEAN]

\* the writer's call of renderFieldEscaped
renderField ==
    /\ pc = "run"
    /\ op = "init"
    /\ op' = "renderFieldEscaped"
    /\ ret' = renderFieldEscaped(arg.writer, arg.type, arg.tag, arg.rejected)
    /\ UNCHANGED <<fileVars, Option, fieldVars, writerVars, cork, corkQueue,
                   inputFile, scopeRefs, tagsLeft, pc, warned, arg>>

\* the tag file open, a call of renderFieldEscaped to come
InitRender ==
    /\ Option = DefaultOption
    /\ fieldObjects = initFieldObjects
    /\ inputFile = SourceLines
    /\ fieldObjectAllocated = Len(initFieldObjects)
    /\ fieldLog = <<>>
    /\ initialized = FALSE
    /\ parserInitialized = {}
    /\ fp = <<>>
    /\ etags = [fp |-> <<>>, byteCount |-> 0]
    /\ numTags = [added |-> 0, prev |-> 0]
    /\ max = [tag |-> 0, line |-> 0]
    /\ cork = 0
    /\ corkQueue = [queue |-> NoQueue, length |-> 0, count |-> 0]
    /\ patternCache = [valid |-> FALSE, pattern |-> NULL, location |-> 0]
    /\ scopeRefs = {}
    /\ tagsLeft = MaxTags
    /\ pc = "run"
    /\ op = "init" /\ arg \in RenderCalls /\ ret = 0 /\ warned = FALSE
    /\ TagsToStdout = FALSE
    /\ tagFileName = Option.tagFileName
    /\ disk = <<>>
    /\ stdout = <<>>
    /\ tempFiles = {}
    /\ physical = <<>>
    /\ closing = NotClosing

NextRender == renderField

SpecRender == InitRender /\ [][NextRender]_vars

RECURSIVE ReplaceTabs(_)
\* s with each tab replaced by a backslash and a t
ReplaceTabs(s) ==
    IF s = <<>> THEN <<>>
    ELSE (IF Head(s) = 9 THEN <<92, 116>> ELSE <<Head(s)>>) \o ReplaceTabs(Tail(s))

\* s has nothing for the escaping to change but tabs
OnlyTabsToEscape(s) ==
    \A i \in 1..Len(s) : s[i] = 9 \/ (s[i] >= 32 /\ s[i] # 127 /\ s[i] # 92)

\* the name field has been rendered
RendersName == op = "renderFieldEscaped" /\ arg.type = FIELD_NAME

\* C31: rendering the name field, the escaping (default) writer returns the
\* name with each tab replaced by backslash-t and does not reject; a
\* no-escape writer sets rejected and returns no value if and only if the
\* name contains a space or a tab, and otherwise returns the name unchanged
\* with rejected left as it was.
C31_NameRendered ==
    RendersName =>
        IF arg.writer = WRITER_DEFAULT
        THEN /\ ret.value # NULL
             /\ ret.rejected = arg.rejected
             /\ \A i \in 1..Len(ret.value) : ret.value[i] # 9
             /\ OnlyTabsToEscape(arg.tag.name) => ret.value = ReplaceTabs(arg.tag.name)
        ELSE IF \E i \in 1..Len(arg.tag.name) : arg.tag.name[i] = 32 \/ arg.tag.name[i] = 9
        THEN ret.value = NULL /\ ret.rejected
        ELSE ret.value = arg.tag.name /\ ret.rejected = arg.rejected

\* the writer of the Exuberant format has rejected a name with a space
C31_Witness ==
    /\ RendersName /\ arg.writer = WRITER_E_CTAGS
    /\ arg.tag.name = <<97, 32>> /\ ~arg.rejected
    /\ ret.value = NULL /\ ret.rejected


(***************************************************************************)
(* What the outermost uncorkTagFile calls, and what it releases.           *)
(***************************************************************************)
\* the strings clearTagEntryInQueue hands to eFree, in its order
clearTagEntryInQueue(slot) ==
    LET tests ==
          << <<"pattern", slot.pattern # NULL>>,
             <<"inputFileName", TRUE>>,
             <<"name", TRUE>>,
             <<"access", slot.access # NULL>>,
             <<"fileScope", slot.fileScope # NULL>>,
             <<"implementation", slot.implementation # NULL>>,
             <<"inheritance", slot.inheritance # NULL>>,
             <<"scopeName", slot.scopeName # NULL>>,
             <<"signature", slot.signature # NULL>>,
             <<"typeRef[0]", slot.typeRef[1] # NULL>>,
             <<"typeRef[1]", slot.typeRef[2] # NULL>>,
             <<"sourceLanguage", slot.sourceLanguage # NULL>>,
             <<"sourceFileName", slot.sourceFileName # NULL>> >>
        IsFreed(t) == t[2]
        freed == SelectSeq(tests, IsFreed)
    IN  [k \in 1..Len(freed) |-> freed[k][1]]

\* a faulty uncork: each entry is released as soon as it is written
UncorkCallsInTurn(q) ==
    [k \in 1..(2 * (q.count - 1)) |->
        IF k % 2 = 1 THEN [call |-> "writeTagEntry", i |-> (k + 1) \div 2]
        ELSE [call |-> "clearTagEntryInQueue", i |-> k \div 2,
              freed |-> clearTagEntryInQueue(q.queue[k \div 2])]]

\* the calls of the two loops of the outermost uncorkTagFile on the queue
\* q, in their order
UncorkCalls(q) ==
    [k \in 1..(2 * (q.count - 1)) |->
        IF k < q.count THEN [call |-> "writeTagEntry", i |-> k]
        ELSE [call |-> "clearTagEntryInQueue", i |-> k - (q.count - 1),
              freed |-> clearTagEntryInQueue(q.queue[k - (q.count - 1)])]]

\* the strings recordTagEntryInQueue has made the entry the owner of
OwnedStrings(slot) ==
    {"inputFileName", "name"}
    \cup (IF slot.pattern # NULL THEN {"pattern"} ELSE {})
    \cup {f \in {"access", "fileScope", "implementation", "inheritance",
                 "scopeName", "signature", "sourceLanguage", "sourceFileName"} :
             slot[f] # NULL}
    \cup (IF slot.typeRef[1] # NULL THEN {"typeRef[0]"} ELSE {})
    \cup (IF slot.typeRef[2] # NULL THEN {"typeRef[1]"} ELSE {})

\* the indices of the queued entries
QueuedIndices == 1..(corkQueue.count - 1)

\* the outermost uncorkTagFile has returned
FlushesQueue == op' = "uncorkTagFile" /\ cork' = 0 /\ pc' = "run"

\* every entry is written, and none is released before the last is written
WritesBeforeReleases ==
    LET calls == UncorkCalls(corkQueue)
    IN  /\ \A i \in QueuedIndices :
              \E k \in 1..Len(calls) : calls[k].call = "writeTagEntry" /\ calls[k].i = i
        /\ \A k, l \in 1..Len(calls) :
              calls[k].call = "writeTagEntry" /\ calls[l].call = "clearTagEntryInQueue"
              => k < l
        /\ numTags'.added = numTags.added
              + Cardinality({i \in QueuedIndices : ~corkQueue.queue[i].placeholder})

\* every entry is released once, and each of its strings once
ReleasesOnce ==
    LET calls == UncorkCalls(corkQueue)
        clears(i) == {k \in 1..Len(calls) :
                        calls[k].call = "clearTagEntryInQueue" /\ calls[k].i = i}
    IN  \A i \in QueuedIndices :
           /\ Cardinality(clears(i)) = 1
           /\ \A k \in clears(i) :
                 /\ {calls[k].freed[j] : j \in 1..Len(calls[k].freed)}
                       = OwnedStrings(corkQueue.queue[i])
                 /\ Len(calls[k].freed) = Cardinality(OwnedStrings(corkQueue.queue[i]))

\* the queue is left without entries, and no index finds an entry
LeavesNoQueue ==
    /\ corkQueue'.count = 0 /\ corkQueue'.length = 0
    /\ DOMAIN corkQueue'.queue = {}
    /\ \A n \in 0..(MaxTags + 1) : getEntryInCorkQueue(n)' = 0

\* the next cork session starts with the entry 0 only, and its entries are
\* numbered from 1 in the order they are queued
NumbersFromOne ==
    /\ op' = "corkTagFile" /\ cork' = 1
       => corkQueue'.count = 1 /\ corkQueue'.queue = [i \in {0} |-> ZeroEntry]
    /\ op' = "makeTagEntry" /\ cork > 0 /\ corkQueue' # corkQueue
       => /\ ret' = corkQueue.count
          /\ corkQueue'.count = corkQueue.count + 1
          /\ \A i \in QueuedIndices : corkQueue'.queue[i] = corkQueue.queue[i]

\* C32: the outermost uncorkTagFile writes every queued entry before it
\* releases any, releases the strings each entry owns exactly once, and
\* leaves the queue with count 0, capacity 0 and no array; afterwards
\* getEntryInCorkQueue (n) finds no entry for any n, and the next cork session
\* numbers its entries from 1 again and holds none of the earlier entries.
C32_FlushThenRelease ==
    [][(FlushesQueue => WritesBeforeReleases /\ ReleasesOnce /\ LeavesNoQueue)
       /\ NumbersFromOne]_vars

\* a second cork session has queued its first entry after a session of one
\* entry was flushed
C32_Witness ==
    /\ op = "makeTagEntry" /\ pc = "run" /\ cork = 1
    /\ ret = 1 /\ corkQueue.count = 2
    /\ numTags.added = 1 /\ tagsLeft = MaxTags - 2
    /\ corkQueue.queue[1].name = N_b
    /\ Len(fp) = 1


(***************************************************************************)
(* Cork sessions of tags that carry every kind of string.                  *)
(***************************************************************************)
\* "a"
S_a == <<97>>

\* "/^Foo/"
S_callerPattern == <<47, 94, 70, 111, 111, 47>>

\* the tags of a parser that fills the extension fields, supplies a pattern
\* of its own, or asks for a line number
CopyTags ==
    {NewTag(N_b, 2, FunctionKind),
     [NewTag(N_Foo, 1, ClassKind) EXCEPT
         !.access = S_a, !.fileScope = S_a, !.implementation = S_a,
         !.inheritance = S_a, !.scopeKind = ClassKind, !.scopeName = N_b,
         !.signature = S_a, !.typeRef = <<S_a, N_Foo>>,
         !.sourceLanguage = N_lang, !.sourceFileName = N_file],
     [NewTag(N_Foo, 1, ClassKind) EXCEPT !.pattern = S_callerPattern],
     [NewTag(N_Foo, 1, ClassKind) EXCEPT !.lineNumberEntry = TRUE]}

InitCork ==
    /\ Option = DefaultOption
    /\ fieldObjects = initFieldObjects
    /\ InitTagFile

NextCork ==
    \/ corkTagFile
    \/ uncorkTagFile
    \/ \E tag \in CopyTags : makeTagEntry(tag)

SpecCork == InitCork /\ [][NextCork]_vars

\* the string fields of an entry but the pattern and the type reference
StringFields ==
    {"name", "inputFileName", "access", "fileScope", "implementation",
     "inheritance", "scopeName", "signature", "sourceLanguage", "sourceFileName"}

\* p is no pointer to a string of the caller
IsOwn(p) == p = <<>> \/ p[1] # -3

\* every string of the entry is its own
OwnsItsStrings(slot) ==
    /\ \A f \in StringFields : IsOwn(slot[f])
    /\ IsOwn(slot.pattern) /\ IsOwn(slot.typeRef[1]) /\ IsOwn(slot.typeRef[2])

\* makeTagEntry has queued the tag
QueuesTag ==
    /\ op' = "makeTagEntry" /\ cork > 0 /\ pc' = "run"
    /\ corkQueue'.count = corkQueue.count + 1

\* the entry queued has the strings of the tag, each its own, and a pattern
\* unless it is a line-number entry: the caller's, or the one of the line
StoresCopy ==
    QueuesTag =>
        LET slot == corkQueue'.queue[ret']
            tag == arg'
        IN  /\ \A f \in StringFields : slot[f] = tag[f]
            /\ slot.typeRef = tag.typeRef
            /\ OwnsItsStrings(slot)
            /\ tag.pattern # NULL => slot.pattern = tag.pattern
            /\ ~tag.lineNumberEntry => slot.pattern # NULL
            /\ tag.lineNumberEntry /\ tag.pattern = NULL => slot.pattern = NULL
            /\ ~tag.lineNumberEntry /\ tag.pattern = NULL
               => /\ slot.pattern = makePatternString(tag, patternCache).out
                  /\ BeginsWith(slot.pattern, <<47, 94, inputFile[tag.lineNumber][1]>>)

\* the queue holds no pointer to a string of the caller
QueueOwnsItsStrings ==
    \A i \in 1..(corkQueue.count - 1) : OwnsItsStrings(corkQueue.queue[i])

\* the lines of a flush are those of the queued values: name, input file
\* and pattern or line number as they were stored
FlushesStoredValues ==
    FlushesQueue =>
        /\ Len(fp') = Len(fp) + corkQueue.count - 1
        /\ \A i \in QueuedIndices :
              LET e == corkQueue.queue[i]
                  line == fp'[Len(fp) + i]
                  head == renderEscapedName(e.name) \o <<9>>
                          \o renderEscapedString(e.inputFileName) \o <<9>>
              IN  BeginsWith(line, head \o (IF e.lineNumberEntry
                                            THEN Decimal(e.lineNumber)
                                            ELSE e.pattern))

\* C33: a tag queued while corked is stored as an independent copy: the
\* entry owns copies of the name, the input file name, the pattern and every
\* extension string that is not NULL, and has a pattern whenever
\* lineNumberEntry is false (built when it is queued if the caller gave
\* none); so the line written at the flush has the values the tag had at
\* makeTagEntry, whatever the caller does with its entry and strings later.
C33_QueuedCopyIsIndependent ==
    []QueueOwnsItsStrings /\ [][StoresCopy /\ FlushesStoredValues]_vars

\* a flush has written the tag with every extension string (its line has
\* typeref:a:Foo) and the tag with the caller's pattern
C33_Witness ==
    /\ op = "uncorkTagFile" /\ pc = "run" /\ cork = 0
    /\ Len(fp) = 2 /\ tagsLeft = MaxTags - 2
    /\ strstr(fp[1], <<116, 121, 112, 101, 114, 101, 102, 58, 97, 58>> \o N_Foo) # 0
    /\ BeginsWith(fp[2], N_Foo \o <<9>> \o N_file \o <<9>> \o S_callerPattern)


RECURSIVE LinksEnd(_, _)
\* following scopeIndex from the entry at index i ends, at 0 or at an index
\* that is none of the queue, within steps steps
LinksEnd(i, steps) ==
    IF ~(0 < i /\ i < corkQueue.count) THEN TRUE
    ELSE IF steps = 0 THEN FALSE
    ELSE LinksEnd(corkQueue.queue[i].scopeIndex, steps - 1)

\* C34: the walk along scopeIndex that the flush makes for the scope name
\* ends for every tag: in every queue that calls of makeTagEntry make, the
\* links from any queued entry reach index 0 or an index out of range after
\* finitely many steps, and the outermost uncorkTagFile always completes.
C34_ScopeWalkTerminates ==
    /\ \A i \in 1..(corkQueue.count - 1) : LinksEnd(i, corkQueue.count)
    /\ pc # "hung"


\* the lines of file that are the pseudo-tag !_TAG_FILE_SORTED
SortedLinesOf(file) ==
    {i \in 1..Len(file) :
        BeginsWith(file[i], <<33, 95>> \o S_TAG_FILE_SORTED \o <<9>>)}

\* the flag of such a line: the character after the tab
FlagOf(line) == line[Len(S_TAG_FILE_SORTED) + 4]

\* C35: after openTagFile has opened an existing ctags file with a
\* !_TAG_FILE_SORTED line for appending, the flag of that line is the sort
\* mode configured ('0' unsorted, '1' sorted, '2' sorted with case folded),
\* whatever flag 0, 1 or 2 the line had and whatever the mode is (the
\* stream being one that can be positioned: no warning is given).
C35_SortFlagIsConfiguredMode ==
    [][AppendsToTagFile /\ ~warned' =>
          \A i \in SortedLinesOf(disk) :
             FlagOf(disk[i]) \in {48, 49, 50}
             => /\ i \in SortedLinesOf(disk')
                /\ FlagOf(disk'[i]) = 48 + Option.sorted]_vars


\* the greater of two numbers
Greater(a, b) == IF a > b THEN a ELSE b

\* the length of the longest of the lines i+1.. of file, or m if that is more
LongestFrom(file, i, m) ==
    LET lengths == {Len(file[k]) : k \in (i + 1)..Len(file)} \cup {m}
    IN  CHOOSE n \in lengths : \A l \in lengths : l <= n

\* a step of the program that goes on, with the tag file in the ctags format
WritesCtags == pc' = "run" /\ ~Option.xref /\ ~Option.etags /\ Len(fp') >= Len(fp)

\* C36: for every record written in the ctags format, the line length
\* handed to rememberMaxLengths is the number of bytes written for the
\* record, with the pattern built anew and with the pattern of the cache;
\* so max.line is the length of the longest record written and max.tag the
\* length of the longest name, and neither ever decreases.
C36_MaxLengthsAreLongest ==
    [][WritesCtags =>
          /\ max'.line = LongestFrom(fp', Len(fp), max.line)
          /\ max'.line >= max.line /\ max'.tag >= max.tag
          /\ op' = "makeTagEntry" /\ Len(fp') = Len(fp) + 1
             => max'.tag = Greater(max.tag, Len(arg'.name))]_vars


(***************************************************************************)
(* The two renderers of a string, renderEscapedString and                  *)
(* renderEscapedName, called with an empty buffer on strings of control    *)
(* characters, backslashes and a letter.                                   *)
(***************************************************************************)
MaxNameLen == 2

\* TAB, SOH, DEL, backslash, "t"
NameChars == {9, 1, 127, 92, 116}

NameStrings == UNION {[1..n -> NameChars] : n \in 0..MaxNameLen}

\* the strings rendered: s by both renderers, t by renderEscapedString
NameCalls == [s : NameStrings, t : NameStrings]

\* the options, Option.fatalWarnings among them
WithFatalWarnings(b) ==
    [f \in DOMAIN DefaultOption \cup {"fatalWarnings"} |->
        IF f = "fatalWarnings" THEN b ELSE DefaultOption[f]]

\* renderEscapedString of s and of t, then renderEscapedName of s: it
\* writes its notices when its scan stops at a control character, and
\* aborts when Option.fatalWarnings is set
renderName ==
    /\ pc = "run"
    /\ op = "init"
    /\ op' = "renderEscapedName"
    /\ LET k == FirstToEscape(arg.s)
           noticed == k <= Len(arg.s) /\ arg.s[k] # 92
       IN  /\ warned' = noticed
           /\ IF noticed /\ Option.fatalWarnings
              THEN pc' = "fatal" /\ ret' = ret
              ELSE /\ pc' = "run"
                   /\ ret' = [string |-> renderEscapedString(arg.s),
                              other |-> renderEscapedString(arg.t),
                              name |-> renderEscapedName(arg.s)]
    /\ UNCHANGED <<fileVars, Option, fieldVars, writerVars, cork, corkQueue,
                   inputFile, scopeRefs, tagsLeft, arg>>

\* two strings to render, Option.fatalWarnings set or not
InitName ==
    /\ \E b \in BOOLEAN : Option = WithFatalWarnings(b)
    /\ fieldObjects = initFieldObjects
    /\ inputFile = SourceLines
    /\ fieldObjectAllocated = Len(initFieldObjects)
    /\ fieldLog = <<>>
    /\ initialized = FALSE
    /\ parserInitialized = {}
    /\ fp = <<>>
    /\ etags = [fp |-> <<>>, byteCount |-> 0]
    /\ numTags = [added |-> 0, prev |-> 0]
    /\ max = [tag |-> 0, line |-> 0]
    /\ cork = 0
    /\ corkQueue = [queue |-> NoQueue, length |-> 0, count |-> 0]
    /\ patternCache = [valid |-> FALSE, pattern |-> NULL, location |-> 0]
    /\ scopeRefs = {}
    /\ tagsLeft = MaxTags
    /\ pc = "run"
    /\ op = "init" /\ arg \in NameCalls /\ ret = 0 /\ warned = FALSE
    /\ TagsToStdout = FALSE
    /\ tagFileName = Option.tagFileName
    /\ disk = <<>>
    /\ stdout = <<>>
    /\ tempFiles = {}
    /\ physical = <<>>
    /\ closing = NotClosing

NextName == renderName

SpecName == InitName /\ [][NextName]_vars

\* a control character: 0x01 to 0x1F, and 0x7F
ControlChar(c) == (c > 0 /\ c <= 31) \/ c = 127

\* the letters of the short backslash forms of BEL, BS, TAB, LF, VT, FF, CR
ShortForm == (7 :> 97) @@ (8 :> 98) @@ (9 :> 116) @@ (10 :> 110) @@ (11 :> 118) @@ (12 :> 102) @@ (13 :> 114)

\* "0123456789ABCDEF"
HexDigits == <<48, 49, 50, 51, 52, 53, 54, 55, 56, 57, 65, 66, 67, 68, 69, 70>>

\* what the escaping makes of one character: a doubled backslash, a short
\* form, \xHH, or the character
Escaped(c) ==
    IF c = 92 THEN <<92, 92>>
    ELSE IF c \in DOMAIN ShortForm THEN <<92, ShortForm[c]>>
    ELSE IF ControlChar(c)
    THEN <<92, 120, HexDigits[(c \div 16) + 1], HexDigits[(c % 16) + 1]>>
    ELSE <<c>>

EscapedText(s) == Concat([i \in 1..Len(s) |-> Escaped(s[i])])

\* the first character of s that is a control character or a backslash is
\* a control character
FirstIsControl(s) ==
    \E i \in 1..Len(s) :
        /\ ControlChar(s[i])
        /\ \A j \in 1..(i - 1) : ~ControlChar(s[j]) /\ s[j] # 92

\* this step is the call of the two renderers
CallsRenderers == op = "init" /\ op' = "renderEscapedName"

\* renderEscapedName returned the text of renderEscapedString: the string
\* itself when nothing is to escape, and else its characters escaped; two
\* different strings are rendered differently
SameEscapedText ==
    /\ pc' = "run"
    /\ ret'.name = ret'.string
    /\ (\A i \in 1..Len(arg.s) : ~ControlChar(arg.s[i]) /\ arg.s[i] # 92)
          => ret'.name = arg.s
    /\ ret'.name = EscapedText(arg.s)
    /\ ret'.other = EscapedText(arg.t)
    /\ arg.s # arg.t => ret'.string # ret'.other

\* C37 as stated: for every string s renderEscapedName yields the text of
\* renderEscapedString, which is s when s has no control character and no
\* backslash, and else s with each control character as its short form or
\* \xHH and each backslash doubled; different strings give different texts
C37_NameIsEscapedString == [][CallsRenderers => SameEscapedText]_vars

\* C37: renderEscapedName aborts when Option.fatalWarnings is set and the
\* first character of s to escape is a control character; in every other
\* case it yields the text of renderEscapedString, which is s when s has no
\* control character and no backslash, and else s with each control
\* character as its short form or \xHH and each backslash doubled; different
\* strings give different texts
C37_NameIsEscapedStringUnlessFatal ==
    [][CallsRenderers =>
          IF Option.fatalWarnings /\ FirstIsControl(arg.s)
          THEN pc' = "fatal"
          ELSE SameEscapedText]_vars

\* a string of a control character without a short form and a backslash
\* was rendered, and another string with it
C37_Witness ==
    /\ op = "renderEscapedName" /\ pc = "run"
    /\ arg.s = <<1, 92>> /\ arg.t = <<92, 116>>
    /\ ret.name = <<92, 120, 48, 49, 92, 92>>
    /\ ret.other = <<92, 92, 116>>


\* the field types of the built-in fields: those initFieldObjects registers
BuiltInFields == 0..(Len(initFieldObjects) - 1)

\* the field types of the fields that parsers defined with defineField
ParserDefinedFields == Len(initFieldObjects)..(fieldObjectUsed - 1)

(***************************************************************************)
(* C38: whatever fields defineField has registered, getFieldTypeForOption  *)
(* returns for every letter, the null letter of the parser-defined fields  *)
(* included, the type of a built-in field or FIELD_UNKNOWN, never the type *)
(* of a parser-defined field.                                              *)
(***************************************************************************)
C38_LetterNeverParserField ==
    op = "getFieldTypeForOption"
       => /\ ret \notin ParserDefinedFields
          /\ ret \in BuiltInFields \cup {FIELD_UNKNOWN}

=============================================================================
